---- MODULE Spec2Model ----
(***************************************************************************)
(* Verification model of the tool-combo-chains biomimetic memory cache.    *)
(*                                                                         *)
(* Weights are floats in the source.  They are modelled as fixed-point     *)
(* integers in units of 1/One (One stands for 1.0), every product being    *)
(* truncated after the multiplication, so that 0.001 is min_weight = 10.    *)
(*                                                                         *)
(* Every "await" on a Redis command is a point where the asyncio loop may  *)
(* run another task; the tasks of SuperhumanHippocampus are therefore      *)
(* modelled one Redis command per step.                                    *)
(***************************************************************************)
EXTENDS Integers, Sequences, FiniteSets, TLC

\* ------------------------------------------------------------------------
\* Bounds of the model
\* ------------------------------------------------------------------------
MaxRecords == 2      \* ids SuperhumanHippocampus.store_memory may hand out
MaxClock   == 2      \* hours the wall clock may advance
MaxAccess  == 2      \* recalls stop once a record's access_count reaches it
MaxSearches == 1     \* calls of search_by_weight in one behaviour

\* ------------------------------------------------------------------------
\* Fixed-point arithmetic
\* ------------------------------------------------------------------------
One == 10000

Min2(a, b) == IF a <= b THEN a ELSE b
Max2(a, b) == IF a >= b THEN a ELSE b

\* a * b for two fixed-point numbers
Mul(a, b) == (a * b) \div One

\* ------------------------------------------------------------------------
\* SuperhumanHippocampus: configuration (__init__)
\* ------------------------------------------------------------------------
max_working_items   == 7
weight_decay_rate   == 9500     \* 0.95 per day
min_weight          == 10       \* 0.001
boost_factor        == 12000    \* 1.2
CONSCIOUS_THRESHOLD == 8000     \* 0.8

\* weight_decay_rate ** (1/24): the decay factor of one hour, 0.99786...
HourlyDecay == 9979

\* weight_decay_rate ** (hours_since_access / 24), hours an integer
RECURSIVE DecayFactor(_)
DecayFactor(hours) ==
    IF hours <= 0 THEN One ELSE Mul(DecayFactor(hours - 1), HourlyDecay)

\* the inputs store_memory is called with: initial_weight,
\* metadata['importance'], whether the context is critical or urgent, and
\* len(content)
StoreInputs ==
    { [hint |-> min_weight, importance |-> 0, critical |-> FALSE, length |-> 0],
      [hint |-> CONSCIOUS_THRESHOLD, importance |-> 0, critical |-> FALSE,
       length |-> 0] }

ShIds == 1..MaxRecords

VARIABLES
    shMem,       \* superhuman:memory:<id>  -> the stored memory entry
    shWeight,    \* superhuman:weight:<id>  -> the weight key
    shIndex,     \* superhuman:weight_index -> score of each member
    shWorking,   \* superhuman:working_memory -> score of each member
    shNow,       \* datetime.utcnow(), in hours
    shNextId,    \* number of uuid4 ids handed out
    rPc, rId, rMem, rBoost,          \* the recall_memory call in flight
    dPc, dQueue, dMem, dNext         \* the _weight_decay_loop task

VARIABLES
    sPc, sMin, sQueue, sMem,         \* the search_by_weight call in flight
    sResults,                        \* its results list
    sCalls                           \* number of search_by_weight calls made

searchVars == <<sPc, sMin, sQueue, sMem, sResults, sCalls>>

shVars == <<shMem, shWeight, shIndex, shWorking, shNow, shNextId,
            rPc, rId, rMem, rBoost, dPc, dQueue, dMem, dNext, searchVars>>

VARIABLES
    mgWorking,   \* Redis keys working_memory:<id> of the manager -> entry
    mgSemantic,  \* rows of the PostgreSQL table semantic_memories
    mgNow,       \* wall clock of the manager, in units of 100 s
    mgStamp,     \* int(time.time() * 1000000) of the latest store_memory
    mgReturned,  \* ids store_memory has returned to its callers
    mgOutcome,   \* how the latest manager call ended
    mgResult,    \* list returned by the latest recall_memory
    mgTiers,     \* per searched region, whether its search raised
    mgLastSws, mgLastRem,   \* last_sws_cycle, last_rem_cycle
    mgCalls,     \* number of manager calls made
    mgRequest,   \* arguments of the latest tool request of the MCP server
    mgShown      \* memories listed in the answer to the latest tool request

mgVars == <<mgWorking, mgSemantic, mgNow, mgStamp, mgReturned, mgOutcome,
            mgResult, mgTiers, mgLastSws, mgLastRem, mgCalls, mgRequest, mgShown>>

VARIABLES
    wmStore,     \* Redis keys hippocampus:working:<id> -> working memory entry
    wmNow,       \* wall clock of the working memory, in units of 10 s
    wmSeq,       \* datetime.utcnow() as the number of timestamps taken so far
    wmNextId,    \* number of uuid4 ids store_immediate has handed out
    wmOutcome,   \* how the latest BiomimeticMemoryRouter.recall_memory ended
    wmTiers,     \* per region, what its search of that recall produced
    wmActive,    \* source_regions of the MemoryOutput of that recall
    wmCalls      \* number of recall_memory calls made

wmVars == <<wmStore, wmNow, wmSeq, wmNextId, wmOutcome, wmTiers, wmActive, wmCalls>>

VARIABLES
    rtPc,        \* per call of route_vector_intelligence, where it stands
    rtPacket,    \* per call, its vector_packet
    rtDecision,  \* per call, the local routing_decision
    rtTasks,     \* per call, the per-region tasks of the fan-out
    rtResults,   \* per call, processing_results
    rtSynth,     \* per call, what _cognitive_synthesis derived
    rtCache,     \* Redis keys routing_decision:<hash> -> cached decision
    rtStats,     \* routing_stats
    rtEvents,    \* events sent to the Kafka topic memory_consolidation
    rtBrain      \* keys of self.brain_regions

rtVars == <<rtPc, rtPacket, rtDecision, rtTasks, rtResults, rtSynth, rtCache,
            rtStats, rtEvents, rtBrain>>

VARIABLES
    hyPg,        \* ids of the rows of memory_entities
    hyQdrant,    \* ids of the points of the Qdrant collection
    hyRels,      \* rows of the table relationships
    hyCache,     \* Redis key recall:all:<hash of the query> -> response
    hyResponse,  \* response of the latest recall_memory
    hyCalls,     \* number of tool calls made
    hyObs        \* rows of the table observations, in insertion order

hyVars == <<hyPg, hyQdrant, hyRels, hyCache, hyResponse, hyCalls, hyObs>>

VARIABLES
    clPc,        \* where BiomimeticMemoryRouter._consolidation_loop stands
    clCycles,    \* stats['consolidation_cycles']
    evPc,        \* where _process_consolidation_events of the thalamus stands
    evHandled    \* events that task has handled

bgVars == <<clPc, clCycles, evPc, evHandled>>

VARIABLES
    weWeight,    \* weight of one SuperhumanHippocampus record
    weHours,     \* hours since that record's last_access
    weRow,       \* weight of one semantic_memories row of the manager
    weRuns       \* the applications of the weight functions made so far

weVars == <<weWeight, weHours, weRow, weRuns>>

VARIABLES
    ncMemories,  \* rows of semantic_memories of the neocortex, by id
    ncRels,      \* rows of semantic_relationships, in insertion order
    ncCalls,     \* number of NeocortexProcessor calls made
    cbSkill,     \* the Skill node of the cerebellum and its LEADS_TO relation
    cbCalls      \* number of reinforce_skill_practice calls made

ncVars == <<ncMemories, ncRels, ncCalls, cbSkill, cbCalls>>

VARIABLES
    bsRaw,        \* documents of raw_input, by _id
    bsProcessed,  \* number of documents of processed per brainstem_id
    bsLog,        \* number of routing-log documents per brainstem_id
    bsIngest,     \* where the ingest_raw_data call under way stands
    bsLoop        \* where _autonomic_processing_loop stands, and its batch

bsVars == <<bsRaw, bsProcessed, bsLog, bsIngest, bsLoop>>

VARIABLES
    enReturned    \* the ids encode_memory has returned, with the content given

enVars == <<enReturned>>

vars == <<shVars, mgVars, wmVars, rtVars, hyVars, bgVars, weVars, ncVars, bsVars, enVars>>

NoMem == [weight |-> 0, access_count |-> 0, last_access |-> 0]

\* _calculate_initial_weight
CalculateInitialWeight(hint, importance, critical, length) ==
    LET base_weight     == hint
        emotional_boost == Mul(importance, 3000)
        context_boost   == IF critical THEN 2000 ELSE 0
        length_factor   == Min2(1000, (length * One) \div 1000)
    IN  Min2(One, base_weight + emotional_boost + context_boost + length_factor)

\* ZSET helpers: the members of a sorted set, lowest score first
RECURSIVE ZRange(_)
ZRange(z) ==
    IF DOMAIN z = {} THEN <<>>
    ELSE LET m == CHOOSE x \in DOMAIN z :
                    \A y \in DOMAIN z : z[x] < z[y] \/ (z[x] = z[y] /\ x <= y)
         IN  <<m>> \o ZRange([k \in DOMAIN z \ {m} |-> z[k]])

ZAdd(z, id, score) == [k \in DOMAIN z \cup {id} |-> IF k = id THEN score ELSE z[k]]

\* zremrangebyrank(key, 0, 0): drop the member of lowest score
ZRemLowest(z) ==
    IF DOMAIN z = {} THEN z
    ELSE [k \in DOMAIN z \ {ZRange(z)[1]} |-> z[k]]

\* _update_working_memory
UpdateWorkingMemory(z, id, weight) ==
    IF weight >= CONSCIOUS_THRESHOLD
    THEN LET added == ZAdd(z, id, weight)
         IN  IF Cardinality(DOMAIN added) > max_working_items
             THEN ZRemLowest(added) ELSE added
    ELSE z

notSh == <<mgVars, wmVars, rtVars, hyVars, bgVars, weVars, ncVars, bsVars, enVars>>
notMg == <<shVars, wmVars, rtVars, hyVars, bgVars, weVars, ncVars, bsVars, enVars>>
notWm == <<shVars, mgVars, rtVars, hyVars, bgVars, weVars, ncVars, bsVars, enVars>>
notRt == <<shVars, mgVars, wmVars, hyVars, bgVars, weVars, ncVars, bsVars, enVars>>
notHy == <<shVars, mgVars, wmVars, rtVars, bgVars, weVars, ncVars, bsVars, enVars>>
notBg == <<shVars, mgVars, wmVars, rtVars, hyVars, weVars, ncVars, bsVars, enVars>>
notWe == <<shVars, mgVars, wmVars, rtVars, hyVars, bgVars, ncVars, bsVars, enVars>>
notNc == <<shVars, mgVars, wmVars, rtVars, hyVars, bgVars, weVars, bsVars, enVars>>
notBs == <<shVars, mgVars, wmVars, rtVars, hyVars, bgVars, weVars, ncVars, enVars>>
notEn == <<shVars, mgVars, wmVars, rtVars, hyVars, bgVars, weVars, ncVars, bsVars>>

ShInit ==
    /\ shMem = <<>> /\ shWeight = <<>> /\ shIndex = <<>> /\ shWorking = <<>>
    /\ shNow = 0 /\ shNextId = 0
    /\ rPc = "idle" /\ rId = 0 /\ rMem = NoMem /\ rBoost = FALSE
    /\ dPc = "sleep" /\ dQueue = <<>> /\ dMem = NoMem /\ dNext = 1
    /\ sPc = "idle" /\ sMin = 0 /\ sQueue = <<>> /\ sMem = NoMem
    /\ sResults = <<>> /\ sCalls = 0

\* store_memory
ShStore ==
    /\ shNextId < MaxRecords
    /\ \E in \in StoreInputs :
        LET id == shNextId + 1
            w  == CalculateInitialWeight(in.hint, in.importance, in.critical,
                                         in.length)
        IN  /\ shNextId' = id
            /\ shMem' = ZAdd(shMem, id,
                   [weight |-> w, access_count |-> 1, last_access |-> shNow])
            /\ shWeight' = ZAdd(shWeight, id, w)
            /\ shIndex' = ZAdd(shIndex, id, w)
            /\ shWorking' = IF w >= CONSCIOUS_THRESHOLD
                            THEN UpdateWorkingMemory(shWorking, id, w)
                            ELSE shWorking
    /\ UNCHANGED <<shNow, rPc, rId, rMem, rBoost, dPc, dQueue, dMem, dNext>>
    /\ UNCHANGED searchVars
    /\ UNCHANGED notSh

\* the wall clock advances by one hour
ShTick ==
    /\ shNow < MaxClock
    /\ shNow' = shNow + 1
    /\ UNCHANGED <<shMem, shWeight, shIndex, shWorking, shNextId,
                   rPc, rId, rMem, rBoost, dPc, dQueue, dMem, dNext>>
    /\ UNCHANGED searchVars
    /\ UNCHANGED notSh

\* Hebbian boost of recall_memory
Reinforce(weight) == Min2(One, Mul(weight, boost_factor))

\* recall_memory, up to the first write: GET, then the update of the copy
RecallGet ==
    /\ rPc = "idle"
    /\ \E id \in ShIds, boost \in BOOLEAN :
        /\ id \in DOMAIN shMem
        /\ shMem[id].access_count < MaxAccess
        /\ rId' = id /\ rBoost' = boost
        /\ rMem' = [weight       |-> IF boost THEN Reinforce(shMem[id].weight)
                                     ELSE shMem[id].weight,
                    access_count |-> shMem[id].access_count + 1,
                    last_access  |-> shNow]
        /\ rPc' = IF boost THEN "weight" ELSE "memory"
    /\ UNCHANGED <<shMem, shWeight, shIndex, shWorking, shNow, shNextId,
                   dPc, dQueue, dMem, dNext>>
    /\ UNCHANGED searchVars
    /\ UNCHANGED notSh

\* _update_weight_tracking: SET of the weight key
RecallSetWeight ==
    /\ rPc = "weight"
    /\ shWeight' = ZAdd(shWeight, rId, rMem.weight)
    /\ rPc' = "index"
    /\ UNCHANGED <<shMem, shIndex, shWorking, shNow, shNextId,
                   rId, rMem, rBoost, dPc, dQueue, dMem, dNext>>
    /\ UNCHANGED searchVars
    /\ UNCHANGED notSh

\* _update_weight_tracking: ZADD to the weight index
RecallZAdd ==
    /\ rPc = "index"
    /\ shIndex' = ZAdd(shIndex, rId, rMem.weight)
    /\ rPc' = "memory"
    /\ UNCHANGED <<shMem, shWeight, shWorking, shNow, shNextId,
                   rId, rMem, rBoost, dPc, dQueue, dMem, dNext>>
    /\ UNCHANGED searchVars
    /\ UNCHANGED notSh

\* recall_memory: SET of the updated memory entry, then return
RecallSetMemory ==
    /\ rPc = "memory"
    /\ shMem' = ZAdd(shMem, rId, rMem)
    /\ rPc' = "idle" /\ rId' = 0 /\ rMem' = NoMem /\ rBoost' = FALSE
    /\ UNCHANGED <<shWeight, shIndex, shWorking, shNow, shNextId,
                   dPc, dQueue, dMem, dNext>>
    /\ UNCHANGED searchVars
    /\ UNCHANGED notSh

\* Decay of _weight_decay_loop for one memory entry
Decay(weight, hours) == Max2(min_weight, Mul(weight, DecayFactor(hours)))

\* _weight_decay_loop: the sleep ends and the ids of the index are read
DecayWake ==
    /\ dPc = "sleep"
    /\ shNow >= dNext
    /\ dQueue' = ZRange(shIndex)
    /\ dPc' = "get"
    /\ UNCHANGED <<shMem, shWeight, shIndex, shWorking, shNow, shNextId,
                   rPc, rId, rMem, rBoost, dMem, dNext>>
    /\ UNCHANGED searchVars
    /\ UNCHANGED notSh

\* _weight_decay_loop: GET of the next entry and the decision to decay it;
\* with no id left the cycle ends and the loop sleeps for an hour
DecayGet ==
    /\ dPc = "get"
    /\ IF dQueue = <<>>
       THEN /\ dPc' = "sleep" /\ dNext' = shNow + 1
            /\ UNCHANGED <<dQueue, dMem>>
       ELSE LET id    == Head(dQueue)
                m     == shMem[id]
                hours == shNow - m.last_access
                new   == Decay(m.weight, hours)
            IN  IF id \in DOMAIN shMem /\ hours > 1 /\ new # m.weight
                THEN /\ dMem' = [m EXCEPT !.weight = new]
                     /\ dPc' = "memory"
                     /\ UNCHANGED <<dQueue, dNext>>
                ELSE /\ dQueue' = Tail(dQueue)
                     /\ UNCHANGED <<dPc, dMem, dNext>>
    /\ UNCHANGED <<shMem, shWeight, shIndex, shWorking, shNow, shNextId,
                   rPc, rId, rMem, rBoost>>
    /\ UNCHANGED searchVars
    /\ UNCHANGED notSh

\* _weight_decay_loop: SET of the decayed memory entry
DecaySetMemory ==
    /\ dPc = "memory"
    /\ shMem' = ZAdd(shMem, Head(dQueue), dMem)
    /\ dPc' = "weight"
    /\ UNCHANGED <<shWeight, shIndex, shWorking, shNow, shNextId,
                   rPc, rId, rMem, rBoost, dQueue, dMem, dNext>>
    /\ UNCHANGED searchVars
    /\ UNCHANGED notSh

\* _update_weight_tracking called by the decay loop: SET of the weight key
DecaySetWeight ==
    /\ dPc = "weight"
    /\ shWeight' = ZAdd(shWeight, Head(dQueue), dMem.weight)
    /\ dPc' = "index"
    /\ UNCHANGED <<shMem, shIndex, shWorking, shNow, shNextId,
                   rPc, rId, rMem, rBoost, dQueue, dMem, dNext>>
    /\ UNCHANGED searchVars
    /\ UNCHANGED notSh

\* _update_weight_tracking called by the decay loop: ZADD, then the next id
DecayZAdd ==
    /\ dPc = "index"
    /\ shIndex' = ZAdd(shIndex, Head(dQueue), dMem.weight)
    /\ dQueue' = Tail(dQueue)
    /\ dPc' = "get" /\ dMem' = NoMem
    /\ UNCHANGED <<shMem, shWeight, shWorking, shNow, shNextId,
                   rPc, rId, rMem, rBoost, dNext>>
    /\ UNCHANGED searchVars
    /\ UNCHANGED notSh

\* min_weight arguments of search_by_weight: the conscious threshold and
\* the full weight
SearchMins == {CONSCIOUS_THRESHOLD, One}

\* zrevrangebyscore(key, max=1.0, min=min): the members of score >= min,
\* highest score first (max_results exceeds the number of records)
RECURSIVE ZRevRangeByScore(_, _)
ZRevRangeByScore(z, min) ==
    LET S == {k \in DOMAIN z : z[k] >= min}
    IN  IF S = {} THEN <<>>
        ELSE LET m == CHOOSE x \in S :
                        \A y \in S : z[x] > z[y] \/ (z[x] = z[y] /\ x >= y)
             IN  <<m>> \o ZRevRangeByScore([k \in S \ {m} |-> z[k]], min)

\* search_by_weight: the ids of the weight index at or above min_weight
SearchStart ==
    /\ sPc \in {"idle", "returned"}
    /\ sCalls < MaxSearches
    /\ \E min \in SearchMins :
        /\ sMin' = min
        /\ sQueue' = ZRevRangeByScore(shIndex, min)
    /\ sPc' = "get" /\ sResults' = <<>> /\ sMem' = NoMem
    /\ sCalls' = sCalls + 1
    /\ UNCHANGED <<shMem, shWeight, shIndex, shWorking, shNow, shNextId,
                   rPc, rId, rMem, rBoost, dPc, dQueue, dMem, dNext>>
    /\ UNCHANGED notSh

\* search_by_weight: recall_memory(memory_id, boost_weight=False) of the
\* next id, up to its write: GET and the update of the copy; with no id
\* left the results are returned
SearchGet ==
    /\ sPc = "get"
    /\ IF sQueue = <<>>
       THEN /\ sPc' = "returned"
            /\ UNCHANGED sMem
       ELSE /\ sMem' = [weight       |-> shMem[Head(sQueue)].weight,
                        access_count |-> shMem[Head(sQueue)].access_count + 1,
                        last_access  |-> shNow]
            /\ sPc' = "memory"
    /\ UNCHANGED <<sMin, sQueue, sResults, sCalls>>
    /\ UNCHANGED <<shMem, shWeight, shIndex, shWorking, shNow, shNextId,
                   rPc, rId, rMem, rBoost, dPc, dQueue, dMem, dNext>>
    /\ UNCHANGED notSh

\* search_by_weight: the SET that ends recall_memory, and the entry
\* appended to results from the memory it returned
SearchSetMemory ==
    /\ sPc = "memory"
    /\ shMem' = ZAdd(shMem, Head(sQueue), sMem)
    /\ sResults' = Append(sResults, [memory_id    |-> Head(sQueue),
                                     weight       |-> sMem.weight,
                                     access_count |-> sMem.access_count])
    /\ sQueue' = Tail(sQueue)
    /\ sPc' = "get" /\ sMem' = NoMem
    /\ UNCHANGED <<sMin, sCalls>>
    /\ UNCHANGED <<shWeight, shIndex, shWorking, shNow, shNextId,
                   rPc, rId, rMem, rBoost, dPc, dQueue, dMem, dNext>>
    /\ UNCHANGED notSh

ShNext ==
    \/ ShStore \/ ShTick
    \/ RecallGet \/ RecallSetWeight \/ RecallZAdd \/ RecallSetMemory
    \/ DecayWake \/ DecayGet \/ DecaySetMemory \/ DecaySetWeight \/ DecayZAdd
    \/ SearchStart \/ SearchGet \/ SearchSetMemory


ShOff == ShInit


\* ------------------------------------------------------------------------
\* BiomimeticMemoryManager
\* ------------------------------------------------------------------------
MaxMgCalls == 3      \* calls of the manager in one behaviour
MaxMgClock == 3      \* time the manager's clock may advance, in units of 100 s

WorkingTtl == 3      \* setex(key, 300, value), in units of 100 s

MgContents   == {"", "a"}       \* content.strip() of the stored texts
MgQueries    == {"a", "b"}
MgThresholds == {0, 5000}       \* access_threshold
\* brain_regions arguments: the default list and two lists of a caller
MgRegionSets == {{"hippocampus", "neocortex", "amygdala"},
                 {"hippocampus", "neocortex"}, {"cerebellum"}}
SemIds       == {101, 102}      \* rows present in semantic_memories
SemWeights   == {min_weight, 9000}

\* query.lower() in memory.content.lower(), over the texts above
Contains(query, content) == query = "" \/ query = content

\* the ids of a set in ascending order
RECURSIVE SeqOfSet(_)
SeqOfSet(S) ==
    IF S = {} THEN <<>>
    ELSE LET m == CHOOSE x \in S : \A y \in S : x <= y
         IN  <<m>> \o SeqOfSet(S \ {m})

\* _reinforce_memory: applied to the MemoryEntry object handed to the caller
ReinforceMemory(m) ==
    [m EXCEPT !.access_count = @ + 1,
              !.weight = IF @ < One THEN Min2(One, Mul(@, 11000)) ELSE @]

\* list.sort(key=lambda m: (m.weight, m.importance_score), reverse=True):
\* stable, so equal keys keep their order
KeyGE(a, b) ==
    a.weight > b.weight \/ (a.weight = b.weight /\ a.importance >= b.importance)

RECURSIVE InsertSorted(_, _)
InsertSorted(e, sorted) ==
    IF sorted = <<>> THEN <<e>>
    ELSE IF KeyGE(Head(sorted), e)
         THEN <<Head(sorted)>> \o InsertSorted(e, Tail(sorted))
         ELSE <<e>> \o sorted

RECURSIVE SortByWeight(_)
SortByWeight(list) ==
    IF list = <<>> THEN <<>>
    ELSE InsertSorted(list[Len(list)], SortByWeight(SubSeq(list, 1, Len(list) - 1)))

RECURSIVE MapReinforce(_)
MapReinforce(list) ==
    IF list = <<>> THEN <<>>
    ELSE <<ReinforceMemory(Head(list))>> \o MapReinforce(Tail(list))

\* _hippocampus_search
HippocampusSearch(query, threshold) ==
    LET hit(id) == /\ mgWorking[id].weight >= threshold
                   /\ Contains(query, mgWorking[id].content)
        ids == SeqOfSet({id \in DOMAIN mgWorking : hit(id)})
    IN  [k \in 1..Len(ids) |->
            [id |-> ids[k], region |-> "hippocampus",
             weight |-> mgWorking[ids[k]].weight,
             importance |-> mgWorking[ids[k]].importance,
             access_count |-> mgWorking[ids[k]].access_count]]

\* _neocortex_search: WHERE weight >= threshold
NeocortexSearch(threshold) ==
    LET ids == SeqOfSet({r \in DOMAIN mgSemantic : mgSemantic[r].weight >= threshold})
    IN  [k \in 1..Len(ids) |->
            [id |-> ids[k], region |-> "neocortex",
             weight |-> mgSemantic[ids[k]].weight,
             importance |-> mgSemantic[ids[k]].importance,
             access_count |-> 1]]

\* SET weight = GREATEST(0.0, weight * 0.95) of _apply_weight_decay
DecayedRowWeight(weight) == Max2(0, Mul(weight, 9500))

\* _apply_weight_decay: ... WHERE last_accessed < NOW() - INTERVAL '24 hours'
ApplyWeightDecay(rows) ==
    [r \in DOMAIN rows |->
        IF rows[r].stale
        THEN [rows[r] EXCEPT !.weight = DecayedRowWeight(@)]
        ELSE rows[r]]

\* no tool request: the manager is called directly
NoRequest == [tool |-> "none", cycle_type |-> "", force |-> FALSE,
              max_results |-> 0]

MgInit ==
    /\ mgWorking = <<>>
    /\ mgSemantic \in [SemIds -> [weight : SemWeights, stale : BOOLEAN,
                                  importance : {5000}]]
    /\ mgNow = 0 /\ mgStamp = 0 /\ mgReturned = {}
    /\ mgOutcome = "none" /\ mgResult = <<>> /\ mgTiers = <<>>
    /\ mgLastSws = 0 /\ mgLastRem = 0 /\ mgCalls = 0
    /\ mgRequest = NoRequest /\ mgShown = <<>>

\* a component that is not part of the specification checked
MgOff ==
    /\ mgWorking = <<>> /\ mgSemantic = <<>>
    /\ mgNow = 0 /\ mgStamp = 0 /\ mgReturned = {}
    /\ mgOutcome = "none" /\ mgResult = <<>> /\ mgTiers = <<>>
    /\ mgLastSws = 0 /\ mgLastRem = 0 /\ mgCalls = 0
    /\ mgRequest = NoRequest /\ mgShown = <<>>

\* store_memory: the id is the clock reading in microseconds, which a second
\* call may read unchanged; the Redis SETEX of _hippocampus_store may raise
MgStore ==
    /\ mgCalls < MaxMgCalls
    /\ \E content \in MgContents, sameReading \in BOOLEAN, redisFails \in BOOLEAN :
        LET id == IF sameReading /\ mgStamp > 0 THEN mgStamp ELSE mgStamp + 1
            entry == [content |-> content, weight |-> One, importance |-> 5000,
                      access_count |-> 1, expires |-> mgNow + WorkingTtl]
        IN  /\ mgStamp' = id
            /\ IF redisFails
               THEN /\ mgOutcome' = "raised"
                    /\ UNCHANGED <<mgWorking, mgReturned>>
               ELSE /\ mgOutcome' = "returned"
                    /\ mgWorking' = ZAdd(mgWorking, id, entry)
                    /\ mgReturned' = mgReturned \cup {id}
    /\ mgCalls' = mgCalls + 1
    /\ mgResult' = <<>> /\ mgTiers' = <<>>
    /\ mgRequest' = NoRequest /\ mgShown' = <<>>
    /\ UNCHANGED <<mgSemantic, mgNow, mgLastSws, mgLastRem>>
    /\ UNCHANGED notMg

\* recall_memory: the searches run under gather(return_exceptions=True)
MgRecall ==
    /\ mgCalls < MaxMgCalls
    /\ \E query \in MgQueries, threshold \in MgThresholds,
          regions \in MgRegionSets, raising \in SUBSET {"hippocampus", "neocortex"} :
        LET failed   == raising \cap regions
            hip      == IF "hippocampus" \in regions \ failed
                        THEN HippocampusSearch(query, threshold) ELSE <<>>
            neo      == IF "neocortex" \in regions \ failed
                        THEN NeocortexSearch(threshold) ELSE <<>>
            combined == hip \o neo
        IN  /\ mgTiers' = [t \in regions |-> IF t \in failed THEN "raised" ELSE "ok"]
            /\ mgResult' = SortByWeight(MapReinforce(combined))
            /\ mgOutcome' = "returned"
    /\ mgCalls' = mgCalls + 1
    /\ mgRequest' = NoRequest /\ mgShown' = <<>>
    /\ UNCHANGED <<mgWorking, mgSemantic, mgNow, mgStamp, mgReturned,
                   mgLastSws, mgLastRem>>
    /\ UNCHANGED notMg

\* consolidate_memories: "sws" ends with _apply_weight_decay; an exception of
\* a cycle is logged and swallowed
MgConsolidate ==
    /\ mgCalls < MaxMgCalls
    /\ \E cycle_type \in {"sws", "rem", "other"}, postgresFails \in BOOLEAN :
        CASE cycle_type = "sws" ->
                /\ mgOutcome' = "returned"
                /\ IF postgresFails
                   THEN UNCHANGED <<mgSemantic, mgLastSws>>
                   ELSE /\ mgSemantic' = ApplyWeightDecay(mgSemantic)
                        /\ mgLastSws' = mgNow
                /\ UNCHANGED mgLastRem
          [] cycle_type = "rem" ->
                /\ mgOutcome' = "returned"
                /\ mgLastRem' = mgNow
                /\ UNCHANGED <<mgSemantic, mgLastSws>>
          [] OTHER ->
                /\ mgOutcome' = "raised"
                /\ UNCHANGED <<mgSemantic, mgLastSws, mgLastRem>>
    /\ mgCalls' = mgCalls + 1
    /\ mgResult' = <<>> /\ mgTiers' = <<>>
    /\ mgRequest' = NoRequest /\ mgShown' = <<>>
    /\ UNCHANGED <<mgWorking, mgNow, mgStamp, mgReturned>>
    /\ UNCHANGED notMg

\* 100 s pass; Redis drops the keys whose TTL has run out
MgTick ==
    /\ mgNow < MaxMgClock
    /\ mgNow' = mgNow + 1
    /\ mgWorking' = [id \in {k \in DOMAIN mgWorking : mgWorking[k].expires > mgNow + 1}
                        |-> mgWorking[id]]
    /\ UNCHANGED <<mgSemantic, mgStamp, mgReturned, mgOutcome, mgResult, mgTiers,
                   mgLastSws, mgLastRem, mgCalls, mgRequest, mgShown>>
    /\ UNCHANGED notMg

MgNext == MgStore \/ MgRecall \/ MgConsolidate \/ MgTick

\* ------------------------------------------------------------------------
\* BiomimeticMemoryMCPServer: the tool handlers in front of the manager
\* ------------------------------------------------------------------------
SwsInterval == 54     \* time_since_last < 5400, in units of 100 s
RemInterval == 216    \* time_since_last < 21600, in units of 100 s

MgMaxResults == {1, 2}     \* max_results arguments
MgCycleTypes == {"sws", "rem"}

\* content <-> query_vector AS similarity of _neocortex_search: the
\* distance of a row to the fixed query vector; the rows come back in
\* this order, which is the order of their ids
Distance(id) == IF id = 101 THEN 1000 ELSE 9000

\* recall_memory of the manager: the list it returns when the searches of
\* the regions in failed raise
RecallMemory(query, threshold, regions, failed) ==
    LET hip == IF "hippocampus" \in regions \ failed
               THEN HippocampusSearch(query, threshold) ELSE <<>>
        neo == IF "neocortex" \in regions \ failed
               THEN NeocortexSearch(threshold) ELSE <<>>
    IN  SortByWeight(MapReinforce(hip \o neo))

\* _handle_recall_memory: the manager's list cut to max_results
MgHandleRecall ==
    /\ mgCalls < MaxMgCalls
    /\ \E query \in MgQueries, threshold \in MgThresholds,
          regions \in MgRegionSets, max_results \in MgMaxResults :
      \E raising \in SUBSET (regions \cap {"hippocampus", "neocortex"}) :
        LET memories == RecallMemory(query, threshold, regions, raising)
        IN  /\ mgTiers' = [t \in regions |-> IF t \in raising THEN "raised" ELSE "ok"]
            /\ mgResult' = memories
            /\ mgShown' = SubSeq(memories, 1, Min2(max_results, Len(memories)))
            /\ mgRequest' = [tool |-> "recall_memory", cycle_type |-> "",
                             force |-> FALSE, max_results |-> max_results]
    /\ mgOutcome' = "returned"
    /\ mgCalls' = mgCalls + 1
    /\ UNCHANGED <<mgWorking, mgSemantic, mgNow, mgStamp, mgReturned,
                   mgLastSws, mgLastRem>>
    /\ UNCHANGED notMg

\* the check that a cycle is due with its comparisons inverted
ConsolidationDueInverted(cycle_type, now, last_sws, last_rem) ==
    CASE cycle_type = "sws" -> now - last_sws < SwsInterval
      [] cycle_type = "rem" -> now - last_rem < RemInterval
      [] OTHER -> TRUE

\* the check of _handle_consolidate_memories that a cycle is due
ConsolidationDue(cycle_type, now, last_sws, last_rem) ==
    CASE cycle_type = "sws" -> ~(now - last_sws < SwsInterval)
      [] cycle_type = "rem" -> ~(now - last_rem < RemInterval)
      [] OTHER -> TRUE

\* _handle_consolidate_memories: without force a cycle that is not due is
\* answered "not due yet"; otherwise consolidate_memories runs
MgHandleConsolidate ==
    /\ mgCalls < MaxMgCalls
    /\ \E cycle_type \in MgCycleTypes, force \in BOOLEAN, postgresFails \in BOOLEAN :
        /\ mgRequest' = [tool |-> "consolidate_memories", cycle_type |-> cycle_type,
                         force |-> force, max_results |-> 0]
        /\ IF ~force /\ ~ConsolidationDue(cycle_type, mgNow, mgLastSws, mgLastRem)
           THEN /\ mgOutcome' = "not_due"
                /\ UNCHANGED <<mgSemantic, mgLastSws, mgLastRem>>
           ELSE /\ mgOutcome' = "completed"
                /\ IF cycle_type = "sws"
                   THEN /\ IF postgresFails
                           THEN UNCHANGED <<mgSemantic, mgLastSws>>
                           ELSE /\ mgSemantic' = ApplyWeightDecay(mgSemantic)
                                /\ mgLastSws' = mgNow
                        /\ UNCHANGED mgLastRem
                   ELSE /\ mgLastRem' = mgNow
                        /\ UNCHANGED <<mgSemantic, mgLastSws>>
    /\ mgCalls' = mgCalls + 1
    /\ mgResult' = <<>> /\ mgTiers' = <<>> /\ mgShown' = <<>>
    /\ UNCHANGED <<mgWorking, mgNow, mgStamp, mgReturned>>
    /\ UNCHANGED notMg

\* the server is idle for the interval of a cycle; every working-memory key
\* expires meanwhile
MgWait ==
    /\ mgNow <= MaxMgClock
    /\ \E d \in {SwsInterval, RemInterval} : mgNow' = mgNow + d
    /\ mgWorking' = <<>>
    /\ UNCHANGED <<mgSemantic, mgStamp, mgReturned, mgOutcome, mgResult, mgTiers,
                   mgLastSws, mgLastRem, mgCalls, mgRequest, mgShown>>
    /\ UNCHANGED notMg

\* the tools store_memory and recall_memory
McpRecallNext == MgStore \/ MgTick \/ MgHandleRecall

\* the tools store_memory and consolidate_memories
McpCycleNext == MgStore \/ MgTick \/ MgWait \/ MgHandleConsolidate


\* ------------------------------------------------------------------------
\* HippocampusMemory (TTL working memory) and BiomimeticMemoryRouter
\* ------------------------------------------------------------------------
MaxWmStores  == 3    \* store_immediate calls in one behaviour
MaxWmClock   == 3    \* time the clock may advance, in units of 10 s
MaxWmRecalls == 1    \* recall_memory calls in one behaviour

wm_max_working_items == 2     \* config.get('max_working_items', 7), set to 2
default_ttl == 3              \* config.get('default_ttl', 30), in units of 10 s

WmContents == {"a", "b"}
WmQueries  == {"a"}
WmRegions  == <<"hippocampus", "neocortex", "cerebellum", "amygdala">>

\* _maintain_working_capacity on the store st: the keys are sorted by
\* (access_count, last_access), highest first, and the last
\* len(keys) - max_working_items of them are deleted
MaintainWorkingCapacity(st) ==
    LET keys == DOMAIN st
        rank(x) == Cardinality({y \in keys :
                      \/ st[y].access_count > st[x].access_count
                      \/ /\ st[y].access_count = st[x].access_count
                         /\ st[y].last_access > st[x].last_access})
    IN  IF Cardinality(keys) > wm_max_working_items
        THEN [k \in {x \in keys : rank(x) < wm_max_working_items} |-> st[k]]
        ELSE st

\* _calculate_relevance > 0.3 over the texts above: a text that does not
\* contain the query scores at most 0.2 + 0.1
Relevant(query, content) == query = content

\* search_working_memory: whether any entry is relevant to the query
WorkingHits(query) ==
    \E k \in DOMAIN wmStore : Relevant(query, wmStore[k].content)

WmInit ==
    /\ wmStore = <<>> /\ wmNow = 0 /\ wmSeq = 0 /\ wmNextId = 0
    /\ wmOutcome = "none" /\ wmTiers = <<>> /\ wmActive = {} /\ wmCalls = 0

WmOff == WmInit

\* store_immediate
WmStoreImmediate ==
    /\ wmNextId < MaxWmStores
    /\ \E content \in WmContents, ttl \in {default_ttl} :
        LET id == wmNextId + 1
            entry == [content |-> content, access_count |-> 1,
                      last_access |-> wmSeq + 1, expires |-> wmNow + ttl]
        IN  /\ wmNextId' = id
            /\ wmStore' = MaintainWorkingCapacity(ZAdd(wmStore, id, entry))
    /\ wmSeq' = wmSeq + 1
    /\ UNCHANGED <<wmNow, wmOutcome, wmTiers, wmActive, wmCalls>>
    /\ UNCHANGED notWm

\* get_immediate of an entry that is present
WmGetImmediate ==
    /\ \E id \in DOMAIN wmStore :
        /\ wmStore[id].access_count < MaxAccess
        /\ LET count == wmStore[id].access_count + 1
               left  == wmStore[id].expires - wmNow
               ttl   == IF count > 3 /\ left > 0 THEN Min2(left + 1, 6) ELSE left
           IN  wmStore' = [wmStore EXCEPT ![id] =
                   [@ EXCEPT !.access_count = count,
                             !.last_access = wmSeq + 1,
                             !.expires = wmNow + ttl]]
    /\ wmSeq' = wmSeq + 1
    /\ UNCHANGED <<wmNow, wmNextId, wmOutcome, wmTiers, wmActive, wmCalls>>
    /\ UNCHANGED notWm

\* 10 s pass; Redis drops the keys whose TTL has run out
WmTick ==
    /\ wmNow < MaxWmClock
    /\ wmNow' = wmNow + 1
    /\ wmStore' = [id \in {k \in DOMAIN wmStore : wmStore[k].expires > wmNow + 1}
                      |-> wmStore[id]]
    /\ UNCHANGED <<wmSeq, wmNextId, wmOutcome, wmTiers, wmActive, wmCalls>>
    /\ UNCHANGED notWm

\* _synthesize_recall: "if results and len(results) > 0" is evaluated for
\* the four results in turn; an exception object handed back by
\* gather(return_exceptions=True) is truthy and has no len(), so the test
\* raises TypeError
SynthesizeRecall(tiers) ==
    IF \E t \in DOMAIN tiers : tiers[t] = "raised"
    THEN [outcome |-> "raised", active |-> {}]
    ELSE [outcome |-> "returned",
          active  |-> {t \in DOMAIN tiers : tiers[t] = "hits"}]

\* BiomimeticMemoryRouter.recall_memory
WmRecall ==
    /\ wmCalls < MaxWmRecalls
    /\ \E query \in WmQueries, redisFails \in BOOLEAN,
          others \in [{"neocortex", "cerebellum", "amygdala"} ->
                         {"raised", "empty", "hits"}] :
        LET tiers == [t \in {WmRegions[i] : i \in 1..4} |->
                        IF t = "hippocampus"
                        THEN IF redisFails THEN "raised"
                             ELSE IF WorkingHits(query) THEN "hits" ELSE "empty"
                        ELSE others[t]]
            syn   == SynthesizeRecall(tiers)
        IN  /\ wmTiers' = tiers
            /\ wmOutcome' = syn.outcome
            /\ wmActive' = syn.active
    /\ wmCalls' = wmCalls + 1
    /\ UNCHANGED <<wmStore, wmNow, wmSeq, wmNextId>>
    /\ UNCHANGED notWm

WmNext == WmStoreImmediate \/ WmGetImmediate \/ WmTick \/ WmRecall


\* ------------------------------------------------------------------------
\* AgenticThalamusRouter: the routing decision
\* ------------------------------------------------------------------------
MaxRequests == 3     \* calls of route_vector_intelligence in one behaviour

Calls == {"call1", "call2"}      \* calls that may be in flight together

AllRegions == {"brainstem", "hippocampus", "neocortex", "cerebellum", "amygdala"}

\* a member of the Enum RoutingStrategy, and the plain string json.loads
\* yields for it
PARALLEL_ALL      == [value |-> "parallel_all", enum |-> TRUE]
SELECTIVE_ROUTING == [value |-> "selective_routing", enum |-> TRUE]

\* what a context dictionary holds
\* (priority_numeric: whether context['priority'] is a number)
CtxPlain  == [urgency |-> "normal", priority |-> 5000, amplification |-> 1,
              size |-> 4, priority_numeric |-> TRUE]
CtxUrgent == [urgency |-> "high", priority |-> 9000, amplification |-> 1000,
              size |-> 2, priority_numeric |-> TRUE]

\* the packets routed: vkey is str(vector[:10]), sparsity the share of
\* non-zero vector entries, semantic/procedural/emotional the number of
\* keywords of each list the content holds, vector_empty whether the
\* vector has no entry
Packets ==
    { [vkey |-> 1, content |-> "c1", semantic |-> 1, procedural |-> 0,
       emotional |-> 0, vector_type |-> "semantic", sparsity |-> 10000,
       priority |-> 5000, context |-> CtxPlain,
       vector_empty |-> FALSE],
      [vkey |-> 1, content |-> "c2", semantic |-> 0, procedural |-> 2,
       emotional |-> 0, vector_type |-> "procedural", sparsity |-> 5000,
       priority |-> 9000, context |-> CtxPlain,
       vector_empty |-> FALSE],
      [vkey |-> 1, content |-> "c1", semantic |-> 1, procedural |-> 0,
       emotional |-> 0, vector_type |-> "semantic", sparsity |-> 5000,
       priority |-> 5000, context |-> CtxPlain,
       vector_empty |-> FALSE],
      [vkey |-> 2, content |-> "c3", semantic |-> 0, procedural |-> 0,
       emotional |-> 1, vector_type |-> "emotional", sparsity |-> 10000,
       priority |-> 9000, context |-> CtxUrgent,
       vector_empty |-> FALSE],
      [vkey |-> 2, content |-> "c4", semantic |-> 0, procedural |-> 0,
       emotional |-> 0, vector_type |-> "contextual", sparsity |-> 10000,
       priority |-> 5000, context |-> CtxPlain,
       vector_empty |-> FALSE] }

\* _analyze_content_for_routing over the contents used: the number of
\* semantic, procedural and emotional keywords each content holds
ContentTable ==
    { [content |-> "c1", semantic |-> 1, procedural |-> 0, emotional |-> 0],
      [content |-> "c2", semantic |-> 0, procedural |-> 2, emotional |-> 0],
      [content |-> "c3", semantic |-> 0, procedural |-> 0, emotional |-> 1],
      [content |-> "c4", semantic |-> 0, procedural |-> 0, emotional |-> 0],
      [content |-> "c5", semantic |-> 1, procedural |-> 1, emotional |-> 2] }

\* the contexts and packets a single routing decision is computed for; a
\* priority that is not a number reads 0 here and is never compared
AllContexts ==
    [urgency : {"normal", "high"}, priority : {5000, 7000, 8000, 9000},
     amplification : {1, 100, 1000}, size : {2, 4}, priority_numeric : {TRUE}]
    \cup [urgency : {"normal", "high"}, priority : {0},
          amplification : {1}, size : {2}, priority_numeric : {FALSE}]

VectorTypes == {"semantic", "procedural", "emotional", "contextual", "mixed"}

AllPackets ==
    { [vkey |-> 1, content |-> t.content, semantic |-> t.semantic,
       procedural |-> t.procedural, emotional |-> t.emotional,
       vector_type |-> vt, sparsity |-> sp, priority |-> 5000,
       context |-> ctx, vector_empty |-> FALSE] :
         t \in ContentTable, vt \in VectorTypes, sp \in {5000, 8000, 10000},
         ctx \in AllContexts }
    \cup { [vkey |-> 3, content |-> t.content, semantic |-> t.semantic,
            procedural |-> t.procedural, emotional |-> t.emotional,
            vector_type |-> "mixed", sparsity |-> 0, priority |-> 5000,
            context |-> CtxPlain, vector_empty |-> TRUE] : t \in ContentTable }

NoPacket   == [vkey |-> 0]
NoDecision == [target_regions |-> {}]
NoSynth    == [successful_regions |-> {}]

\* cache_key = f"routing_decision:{hash(str(vector_packet.vector[:10]))}"
CacheKey(packet) == packet.vkey

\* _extract_context_signals
ExtractContextSignals(context) ==
    [urgency |-> context.urgency,
     priority |-> context.priority,
     expected_amplification |-> context.amplification,
     confidence |-> IF context.size > 3 THEN Min2(One, 5000 + 3000) ELSE 5000]

\* _analyze_vector_properties
AnalyzeVectorProperties(packet) ==
    LET context_signals == ExtractContextSignals(packet.context)
    IN  [content_signals |-> [semantic_signals   |-> packet.semantic,
                              procedural_signals |-> packet.procedural,
                              emotional_signals  |-> packet.emotional],
         context_signals |-> context_signals,
         routing_confidence |->
             Min2(One, (packet.sparsity + context_signals.confidence) \div 2)]

\* _select_target_regions without its rule for mixed or amplified packets
SelectTargetRegionsNoMixed(vector_analysis, packet) ==
    LET content_signals == vector_analysis.content_signals
        context_signals == vector_analysis.context_signals
    IN  {"brainstem", "hippocampus"}
        \cup (IF content_signals.semantic_signals > 0
                 \/ packet.vector_type = "semantic"
              THEN {"neocortex"} ELSE {})
        \cup (IF content_signals.procedural_signals > 0
                 \/ packet.vector_type = "procedural"
              THEN {"cerebellum"} ELSE {})
        \cup (IF content_signals.emotional_signals > 0
                 \/ context_signals.priority > 7000
                 \/ packet.vector_type = "emotional"
              THEN {"amygdala"} ELSE {})

\* _select_target_regions without its two unconditional regions
SelectTargetRegionsNoDefault(vector_analysis, packet) ==
    LET content_signals == vector_analysis.content_signals
        context_signals == vector_analysis.context_signals
    IN  (IF content_signals.semantic_signals > 0
            \/ packet.vector_type = "semantic"
         THEN {"neocortex"} ELSE {})
        \cup (IF content_signals.procedural_signals > 0
                 \/ packet.vector_type = "procedural"
              THEN {"cerebellum"} ELSE {})
        \cup (IF content_signals.emotional_signals > 0
                 \/ context_signals.priority > 7000
                 \/ packet.vector_type = "emotional"
              THEN {"amygdala"} ELSE {})
        \cup (IF packet.vector_type = "mixed"
                 \/ context_signals.expected_amplification > 100
              THEN {"neocortex", "cerebellum", "amygdala"} ELSE {})

\* _select_target_regions
SelectTargetRegions(vector_analysis, packet) ==
    LET content_signals == vector_analysis.content_signals
        context_signals == vector_analysis.context_signals
    IN  {"brainstem", "hippocampus"}
        \cup (IF content_signals.semantic_signals > 0
                 \/ packet.vector_type = "semantic"
              THEN {"neocortex"} ELSE {})
        \cup (IF content_signals.procedural_signals > 0
                 \/ packet.vector_type = "procedural"
              THEN {"cerebellum"} ELSE {})
        \cup (IF content_signals.emotional_signals > 0
                 \/ context_signals.priority > 7000
                 \/ packet.vector_type = "emotional"
              THEN {"amygdala"} ELSE {})
        \cup (IF packet.vector_type = "mixed"
                 \/ context_signals.expected_amplification > 100
              THEN {"neocortex", "cerebellum", "amygdala"} ELSE {})

\* _select_routing_strategy without its test of urgency and priority
SelectRoutingStrategyByConfidence(vector_analysis) ==
    IF vector_analysis.routing_confidence > 8000
    THEN SELECTIVE_ROUTING
    ELSE PARALLEL_ALL

\* _select_routing_strategy
SelectRoutingStrategy(vector_analysis) ==
    LET context_signals == vector_analysis.context_signals
    IN  IF context_signals.urgency \in {"high", "critical"}
           \/ context_signals.priority > 8000
        THEN PARALLEL_ALL
        ELSE IF vector_analysis.routing_confidence > 8000
             THEN SELECTIVE_ROUTING
             ELSE PARALLEL_ALL

\* _plan_format_transformations: per target region, the payload built from
\* the packet
PlanFormatTransformations(packet, target_regions) ==
    [region \in target_regions |->
        [content |-> packet.content,
         context |-> packet.context,
         priority |-> IF region = "hippocampus" THEN Min2(One, packet.priority)
                      ELSE packet.priority]]

\* _calculate_priority_order
CalculatePriorityOrder(target_regions, vector_analysis) ==
    LET base_order == <<"brainstem", "amygdala", "hippocampus", "neocortex",
                        "cerebellum">>
        kept == SelectSeq(base_order, LAMBDA r : r \in target_regions)
    IN  IF vector_analysis.context_signals.priority > 8000
           /\ "amygdala" \in target_regions
        THEN <<"amygdala">> \o SelectSeq(kept, LAMBDA r : r # "amygdala")
        ELSE kept

\* whether lines 278-311 of _analyze_and_decide_routing raise: with an
\* empty vector count_nonzero(vector) / len(vector) is 0 / 0
\* (ZeroDivisionError); a priority that is not a number is compared with
\* 0.8 in _calculate_priority_order at the latest (TypeError)
AnalysisRaises(packet) ==
    packet.vector_empty \/ ~packet.context.priority_numeric

\* lines 278-311 of _analyze_and_decide_routing: the decision computed on
\* a cache miss
ComputeDecision(packet) ==
    LET vector_analysis == AnalyzeVectorProperties(packet)
        target_regions  == SelectTargetRegions(vector_analysis, packet)
    IN  [target_regions   |-> target_regions,
         routing_strategy |-> SelectRoutingStrategy(vector_analysis),
         transformations  |-> PlanFormatTransformations(packet, target_regions),
         priority_order   |-> CalculatePriorityOrder(target_regions, vector_analysis),
         confidence       |-> vector_analysis.routing_confidence]

\* json.dumps(asdict(routing_decision)) succeeds only if no field holds an
\* Enum member: json has no encoder for RoutingStrategy and raises TypeError
JsonSerializable(decision) == ~decision.routing_strategy.enum

\* RoutingDecision(**json.loads(cached_decision)): the strategy comes back
\* as a plain string
FromCache(cached) ==
    [cached EXCEPT !.routing_strategy = [value |-> @.value, enum |-> FALSE]]

NoStats == [total_requests |-> 0, successful_routes |-> 0, failed_routes |-> 0,
            cache_hits |-> 0, cache_misses |-> 0]

RtOff ==
    /\ rtPc = [c \in Calls |-> "idle"]
    /\ rtPacket = [c \in Calls |-> NoPacket]
    /\ rtDecision = [c \in Calls |-> NoDecision]
    /\ rtTasks = [c \in Calls |-> <<>>]
    /\ rtResults = [c \in Calls |-> <<>>]
    /\ rtSynth = [c \in Calls |-> NoSynth]
    /\ rtCache = <<>>
    /\ rtStats = NoStats
    /\ rtEvents = {}
    /\ rtBrain = AllRegions

RtInit == RtOff

\* a call that has not started, or has returned or raised
Finished == {"idle", "returned", "raised"}

\* route_vector_intelligence is called with a packet
RtStart(c) ==
    /\ rtPc[c] \in Finished
    /\ rtStats.total_requests
         + Cardinality({d \in Calls : rtPc[d] \notin Finished}) < MaxRequests
    /\ \E packet \in Packets : rtPacket' = [rtPacket EXCEPT ![c] = packet]
    /\ rtPc' = [rtPc EXCEPT ![c] = "cache_get"]
    /\ rtDecision' = [rtDecision EXCEPT ![c] = NoDecision]
    /\ UNCHANGED <<rtTasks, rtResults, rtSynth, rtCache, rtStats, rtEvents, rtBrain>>
    /\ UNCHANGED notRt

\* _analyze_and_decide_routing: GET of the cache key, which may raise; a
\* cached decision is returned at once (optimization_enabled is True)
RtCacheGet(c) ==
    /\ rtPc[c] = "cache_get"
    /\ \E redisFails \in BOOLEAN :
        LET key == CacheKey(rtPacket[c])
        IN  IF redisFails
            THEN /\ rtPc' = [rtPc EXCEPT ![c] = "except"]
                 /\ UNCHANGED <<rtStats, rtDecision>>
            ELSE IF key \in DOMAIN rtCache
            THEN /\ rtStats' = [rtStats EXCEPT !.cache_hits = @ + 1]
                 /\ rtDecision' = [rtDecision EXCEPT ![c] = FromCache(rtCache[key])]
                 /\ rtPc' = [rtPc EXCEPT ![c] = "decided"]
            ELSE /\ rtStats' = [rtStats EXCEPT !.cache_misses = @ + 1]
                 /\ rtPc' = [rtPc EXCEPT ![c] = "analyze"]
                 /\ UNCHANGED rtDecision
    /\ UNCHANGED <<rtPacket, rtTasks, rtResults, rtSynth, rtCache, rtEvents, rtBrain>>
    /\ UNCHANGED notRt

\* _analyze_and_decide_routing: the decision is computed, or the analysis
\* raises
RtAnalyze(c) ==
    /\ rtPc[c] = "analyze"
    /\ IF AnalysisRaises(rtPacket[c])
       THEN /\ rtPc' = [rtPc EXCEPT ![c] = "except"]
            /\ UNCHANGED rtDecision
       ELSE /\ rtDecision' = [rtDecision EXCEPT ![c] = ComputeDecision(rtPacket[c])]
            /\ rtPc' = [rtPc EXCEPT ![c] = "cache_store"]
    /\ UNCHANGED <<rtPacket, rtTasks, rtResults, rtSynth, rtCache, rtStats,
                   rtEvents, rtBrain>>
    /\ UNCHANGED notRt

\* _analyze_and_decide_routing: SETEX of the serialized decision; an
\* exception leaves through the except clause of route_vector_intelligence
RtCacheStore(c) ==
    /\ rtPc[c] = "cache_store"
    /\ IF JsonSerializable(rtDecision[c])
       THEN /\ rtCache' = ZAdd(rtCache, CacheKey(rtPacket[c]), rtDecision[c])
            /\ rtPc' = [rtPc EXCEPT ![c] = "decided"]
       ELSE /\ rtPc' = [rtPc EXCEPT ![c] = "except"]
            /\ UNCHANGED rtCache
    /\ UNCHANGED <<rtPacket, rtDecision, rtTasks, rtResults, rtSynth, rtStats,
                   rtEvents, rtBrain>>
    /\ UNCHANGED notRt

\* except clause of route_vector_intelligence:
\* _update_routing_intelligence(success=False), then the exception is raised
RtExcept(c) ==
    /\ rtPc[c] = "except"
    /\ rtStats' = [rtStats EXCEPT !.total_requests = @ + 1,
                                  !.failed_routes = @ + 1]
    /\ rtPc' = [rtPc EXCEPT ![c] = "raised"]
    /\ rtDecision' = [rtDecision EXCEPT ![c] = NoDecision]
    /\ UNCHANGED <<rtPacket, rtTasks, rtResults, rtSynth, rtCache, rtEvents, rtBrain>>
    /\ UNCHANGED notRt

RtNext ==
    \E c \in Calls :
        RtStart(c) \/ RtCacheGet(c) \/ RtAnalyze(c) \/ RtCacheStore(c) \/ RtExcept(c)


\* one routing decision, for any packet of AllPackets
DecideInit ==
    /\ \E packet \in AllPackets :
          rtPacket = [c \in Calls |-> IF c = "call1" THEN packet ELSE NoPacket]
    /\ rtPc = [c \in Calls |-> IF c = "call1" THEN "cache_get" ELSE "idle"]
    /\ rtDecision = [c \in Calls |-> NoDecision]
    /\ rtTasks = [c \in Calls |-> <<>>]
    /\ rtResults = [c \in Calls |-> <<>>]
    /\ rtSynth = [c \in Calls |-> NoSynth]
    /\ rtCache = <<>>
    /\ rtStats = NoStats
    /\ rtEvents = {}
    /\ rtBrain = AllRegions

DecideNext ==
    \E c \in Calls :
        RtCacheGet(c) \/ RtAnalyze(c) \/ RtCacheStore(c) \/ RtExcept(c)

\* ------------------------------------------------------------------------
\* AgenticThalamusRouter: the fan-out of a decision (steps 2 to 6 of
\* route_vector_intelligence)
\* ------------------------------------------------------------------------
\* self.brain_regions as the constructor may receive it
BrainConfigs == {AllRegions, {"brainstem", "hippocampus", "amygdala"}}

\* a decision has been made for a packet
FanInit ==
    /\ rtBrain \in BrainConfigs
    /\ \E packet \in Packets :
          /\ rtPacket = [c \in Calls |-> IF c = "call1" THEN packet ELSE NoPacket]
          /\ rtDecision = [c \in Calls |-> IF c = "call1" THEN ComputeDecision(packet)
                                           ELSE NoDecision]
    /\ rtPc = [c \in Calls |-> IF c = "call1" THEN "decided" ELSE "idle"]
    /\ rtTasks = [c \in Calls |-> <<>>]
    /\ rtResults = [c \in Calls |-> <<>>]
    /\ rtSynth = [c \in Calls |-> NoSynth]
    /\ rtCache = <<>>
    /\ rtStats = NoStats
    /\ rtEvents = {}

\* _transform_for_targets and the task creation of
\* _execute_parallel_processing
FanCreateTasks(c) ==
    /\ rtPc[c] = "decided"
    /\ LET transformed_inputs == rtDecision[c].transformations
           processing_tasks ==
               {region \in rtDecision[c].target_regions :
                   region \in DOMAIN transformed_inputs /\ region \in rtBrain}
       IN  rtTasks' = [rtTasks EXCEPT ![c] = [region \in processing_tasks |-> "pending"]]
    /\ rtPc' = [rtPc EXCEPT ![c] = "gather"]
    /\ UNCHANGED <<rtPacket, rtDecision, rtResults, rtSynth, rtCache, rtStats,
                   rtEvents, rtBrain>>
    /\ UNCHANGED notRt

\* _process_in_brain_region: one region's processor returns or raises
FanTaskEnds(c) ==
    /\ rtPc[c] = "gather"
    /\ \E region \in DOMAIN rtTasks[c], outcome \in {"ok", "raised"} :
          /\ rtTasks[c][region] = "pending"
          /\ rtTasks' = [rtTasks EXCEPT ![c][region] = outcome]
    /\ UNCHANGED <<rtPc, rtPacket, rtDecision, rtResults, rtSynth, rtCache,
                   rtStats, rtEvents, rtBrain>>
    /\ UNCHANGED notRt

\* _execute_parallel_processing after gather: the result map and its _meta
\* entry; routing_strategy.value exists on an Enum member only
FanCollect(c) ==
    /\ rtPc[c] = "gather"
    /\ \A region \in DOMAIN rtTasks[c] : rtTasks[c][region] \in {"ok", "raised"}
    /\ IF rtDecision[c].routing_strategy.enum
       THEN /\ rtResults' = [rtResults EXCEPT ![c] =
                   [key \in DOMAIN rtTasks[c] \cup {"_meta"} |->
                       IF key = "_meta"
                       THEN [success |-> FALSE, error |-> FALSE,
                             regions_processed |-> Cardinality(DOMAIN rtTasks[c]) - 1]
                       ELSE [success |-> rtTasks[c][key] = "ok",
                             error |-> rtTasks[c][key] = "raised",
                             regions_processed |-> 0]]]
            /\ rtPc' = [rtPc EXCEPT ![c] = "synthesis"]
       ELSE /\ rtPc' = [rtPc EXCEPT ![c] = "except"]
            /\ UNCHANGED rtResults
    /\ UNCHANGED <<rtPacket, rtDecision, rtTasks, rtSynth, rtCache, rtStats,
                   rtEvents, rtBrain>>
    /\ UNCHANGED notRt

\* _cognitive_synthesis
FanSynthesis(c) ==
    /\ rtPc[c] = "synthesis"
    /\ LET successful_regions ==
               {region \in DOMAIN rtResults[c] :
                   region # "_meta" /\ rtResults[c][region].success}
       IN  rtSynth' = [rtSynth EXCEPT ![c] =
               [successful_regions |-> successful_regions,
                region_insights |-> successful_regions \ {"brainstem"},
                base_amplification |-> Cardinality(successful_regions) * 10]]
    /\ rtPc' = [rtPc EXCEPT ![c] = "update"]
    /\ UNCHANGED <<rtPacket, rtDecision, rtTasks, rtResults, rtCache, rtStats,
                   rtEvents, rtBrain>>
    /\ UNCHANGED notRt

\* _update_routing_intelligence(success=True); the LPUSH of the success
\* pattern may raise
FanUpdate(c) ==
    /\ rtPc[c] = "update"
    /\ rtStats' = [rtStats EXCEPT !.total_requests = @ + 1,
                                  !.successful_routes = @ + 1]
    /\ \E redisFails \in BOOLEAN :
          rtPc' = [rtPc EXCEPT ![c] = IF redisFails THEN "except" ELSE "stream"]
    /\ UNCHANGED <<rtPacket, rtDecision, rtTasks, rtResults, rtSynth, rtCache,
                   rtEvents, rtBrain>>
    /\ UNCHANGED notRt

\* _stream_consolidation_events, then the return; a KafkaError is logged
FanStream(c) ==
    /\ rtPc[c] = "stream"
    /\ \E kafkaError \in BOOLEAN :
          rtEvents' = IF kafkaError THEN rtEvents
                      ELSE rtEvents \cup
                           {[vector_packet_id |-> rtPacket[c].content,
                             regions_involved |-> DOMAIN rtResults[c],
                             base_amplification |-> rtSynth[c].base_amplification]}
    /\ rtPc' = [rtPc EXCEPT ![c] = "returned"]
    /\ UNCHANGED <<rtPacket, rtDecision, rtTasks, rtResults, rtSynth, rtCache,
                   rtStats, rtBrain>>
    /\ UNCHANGED notRt

FanNext ==
    \E c \in Calls :
        \/ FanCreateTasks(c) \/ FanTaskEnds(c) \/ FanCollect(c)
        \/ FanSynthesis(c) \/ FanUpdate(c) \/ FanStream(c) \/ RtExcept(c)

\* ------------------------------------------------------------------------
\* HybridMemoryServer (PostgreSQL entities and relationships, Qdrant points,
\* Redis recall cache)
\* ------------------------------------------------------------------------
MaxHyCalls == 5      \* tool calls of the hybrid server in one behaviour

HyIds        == 1..3              \* memory_entities.id of the entities stored
HyRelTypes   == {"t1", "t2"}      \* relationship_type arguments
HyMaxResults == {2, 4}            \* max_results arguments

\* score of the query against the point of an entity, as Qdrant reports it
Similarity(id) == CASE id = 1 -> 9000 [] id = 2 -> 8000 [] OTHER -> 7000

\* memory_entities.importance_score: no statement of the server writes it,
\* so every row holds the same value
HyImportance == 5000

NoResponse == [results |-> <<>>, total_found |-> 0, source |-> "unset"]

\* qdrant search(limit=k): the k points nearest to the query
TopK(S, k) ==
    {x \in S : Cardinality({y \in S : Similarity(y) > Similarity(x)}) < k}

\* the orders in which the rows of a set may be delivered
Perms(S) ==
    {s \in [1..Cardinality(S) -> S] : \A i, j \in DOMAIN s : s[i] = s[j] => i = j}

\* key of results.sort: similarity * 0.7 + importance * 0.3, times 10
HyScore(r) == r.similarity * 7 + r.importance * 3

RECURSIVE HyInsert(_, _)
HyInsert(e, sorted) ==
    IF sorted = <<>> THEN <<e>>
    ELSE IF HyScore(Head(sorted)) >= HyScore(e)
         THEN <<Head(sorted)>> \o HyInsert(e, Tail(sorted))
         ELSE <<e>> \o sorted

\* results.sort(key=..., reverse=True): stable, highest score first
RECURSIVE HySort(_)
HySort(list) ==
    IF list = <<>> THEN <<>>
    ELSE HyInsert(list[Len(list)], HySort(SubSeq(list, 1, Len(list) - 1)))

\* the result built for a directly matched entity
DirectResult(id) ==
    [entity_id |-> id, similarity |-> Similarity(id),
     importance |-> HyImportance, match_type |-> "direct", relationship |-> ""]

\* the result built for a row of the graph expansion
RelatedResult(row) ==
    [entity_id |-> row.to, similarity |-> 0, importance |-> HyImportance,
     match_type |-> "related", relationship |-> row.type]

RECURSIVE MapDirect(_)
MapDirect(ids) ==
    IF ids = <<>> THEN <<>>
    ELSE <<DirectResult(Head(ids))>> \o MapDirect(Tail(ids))

\* the loop over the rows of the graph expansion: a row is appended unless
\* its entity was matched by the vector search
RECURSIVE AppendRelated(_, _)
AppendRelated(rows, matches) ==
    IF rows = <<>> THEN <<>>
    ELSE (IF Head(rows).to \notin matches
          THEN <<RelatedResult(Head(rows))>> ELSE <<>>)
         \o AppendRelated(Tail(rows), matches)

\* SELECT DISTINCT e2.*, r.relationship_type, r.strength ... WHERE
\* r.from_entity_id = ANY(ids): one row per related entity, relationship
\* type and strength (every row holds the strength the column defaults to)
RelatedRows(rels, ids) ==
    {[to |-> r.to, type |-> r.type] : r \in {x \in rels : x.from \in ids}}

\* the response recall_memory builds from the rows delivered in the order
\* related
BuildResponse(matches, entities, related, max_results) ==
    LET results == HySort(MapDirect(SeqOfSet(entities))
                          \o AppendRelated(related, matches))
    IN  [results     |-> SubSeq(results, 1, Min2(max_results, Len(results))),
         total_found |-> Len(results),
         source      |-> "hybrid"]

HyInit ==
    /\ hyPg = {} /\ hyQdrant = {} /\ hyRels = {}
    /\ hyCache = <<>> /\ hyResponse = NoResponse /\ hyCalls = 0
    /\ hyObs = <<>>

HyOff == HyInit

\* observations arguments of store_memory
HyObservations == {<<>>, <<"o1">>}

\* the rows "INSERT INTO observations" adds for one call, one per observation
RECURSIVE ObservationRows(_, _)
ObservationRows(entity_id, observations) ==
    IF observations = <<>> THEN <<>>
    ELSE <<[entity_id |-> entity_id, observation |-> Head(observations)]>>
         \o ObservationRows(entity_id, Tail(observations))

\* store_memory: INSERT ... ON CONFLICT DO UPDATE of the entity, one INSERT
\* per observation, then the Qdrant upsert, which may raise; the cache key
\* deleted is not a key recall_memory writes
HyStoreMemory ==
    /\ hyCalls < MaxHyCalls
    /\ \E id \in HyIds, observations \in HyObservations, qdrantFails \in BOOLEAN :
        /\ hyPg' = hyPg \cup {id}
        /\ hyObs' = hyObs \o ObservationRows(id, observations)
        /\ hyQdrant' = IF qdrantFails THEN hyQdrant ELSE hyQdrant \cup {id}
    /\ hyCalls' = hyCalls + 1
    /\ UNCHANGED <<hyRels, hyCache, hyResponse>>
    /\ UNCHANGED notHy

\* create_relationship: both entities must exist; INSERT ... ON CONFLICT DO
\* NOTHING
HyCreateRelationship ==
    /\ hyCalls < MaxHyCalls
    /\ \E from \in HyIds, to \in HyIds, type \in HyRelTypes :
        hyRels' = IF from \in hyPg /\ to \in hyPg
                  THEN hyRels \cup {[from |-> from, to |-> to, type |-> type]}
                  ELSE hyRels
    /\ hyCalls' = hyCalls + 1
    /\ UNCHANGED <<hyPg, hyQdrant, hyCache, hyResponse, hyObs>>
    /\ UNCHANGED notHy

\* recall_memory of the one query, with entity_type None
HyRecall ==
    /\ hyCalls < MaxHyCalls
    /\ \E include_graph \in BOOLEAN, max_results \in HyMaxResults :
        IF hyCache # <<>>
        THEN /\ hyResponse' = hyCache[1]
             /\ UNCHANGED hyCache
        ELSE LET matches  == TopK(hyQdrant, max_results)
                 entities == matches \cap hyPg
                 rows     == IF include_graph
                             THEN RelatedRows(hyRels, matches) ELSE {}
                 limit    == Min2(max_results \div 2, Cardinality(rows))
             IN  IF matches = {}
                 THEN /\ hyResponse' = [results |-> <<>>, total_found |-> 0,
                                        source |-> "none"]
                      /\ UNCHANGED hyCache
                 ELSE \E chosen \in SUBSET rows :
                        /\ Cardinality(chosen) = limit
                        /\ \E related \in Perms(chosen) :
                            /\ hyResponse' = BuildResponse(matches, entities,
                                                           related, max_results)
                            /\ hyCache' = <<hyResponse'>>
    /\ hyCalls' = hyCalls + 1
    /\ UNCHANGED <<hyPg, hyQdrant, hyRels, hyObs>>
    /\ UNCHANGED notHy

\* the recall key expires CACHE_TTL // 2 seconds after it was set
HyCacheExpire ==
    /\ hyCache # <<>>
    /\ hyCache' = <<>>
    /\ UNCHANGED <<hyPg, hyQdrant, hyRels, hyResponse, hyCalls, hyObs>>
    /\ UNCHANGED notHy

HyNext == HyStoreMemory \/ HyCreateRelationship \/ HyRecall \/ HyCacheExpire

\* add_observations: an entity that does not exist gives an error result;
\* else one INSERT per observation; the key handed to the Redis DELETE is
\* the literal text "recall:*<name>*", which is no key recall_memory writes
HyAddObservations ==
    /\ hyCalls < MaxHyCalls
    /\ \E id \in HyIds, observations \in HyObservations :
        hyObs' = IF id \in hyPg
                 THEN hyObs \o ObservationRows(id, observations)
                 ELSE hyObs
    /\ hyCalls' = hyCalls + 1
    /\ UNCHANGED <<hyPg, hyQdrant, hyRels, hyCache, hyResponse>>
    /\ UNCHANGED notHy

HyCacheNext == HyStoreMemory \/ HyAddObservations \/ HyRecall \/ HyCacheExpire


\* ------------------------------------------------------------------------
\* Background tasks
\* ------------------------------------------------------------------------
MaxCycles == 1       \* consolidation cycles the router loop may complete
MaxEvents == 2       \* events the thalamus consumer may handle
MaxDecayClock == 3   \* hours the clock may advance beside the decay loop

BgInit ==
    /\ clPc = "sleep" /\ clCycles = 0
    /\ evPc = "waiting" /\ evHandled = 0

BgOff == BgInit

\* the wall clock advances by one hour while the tasks run
DecayTick ==
    /\ shNow < MaxDecayClock
    /\ shNow' = shNow + 1
    /\ UNCHANGED <<shMem, shWeight, shIndex, shWorking, shNextId,
                   rPc, rId, rMem, rBoost, dPc, dQueue, dMem, dNext>>
    /\ UNCHANGED searchVars
    /\ UNCHANGED notSh

\* _weight_decay_loop: the Redis command the cycle is about to issue raises;
\* "except Exception" logs the failure and sleeps five minutes
DecayExcept ==
    /\ \/ dPc = "sleep" /\ shNow >= dNext
       \/ dPc = "get" /\ dQueue # <<>>
       \/ dPc \in {"memory", "weight", "index"}
    /\ dPc' = "retry" /\ dQueue' = <<>> /\ dMem' = NoMem
    /\ UNCHANGED <<shMem, shWeight, shIndex, shWorking, shNow, shNextId,
                   rPc, rId, rMem, rBoost, dNext>>
    /\ UNCHANGED searchVars
    /\ UNCHANGED notSh

\* _weight_decay_loop: the sleep of the handler ends, "while True" goes on
\* with the sleep of an hour
DecayRetry ==
    /\ dPc = "retry"
    /\ dPc' = "sleep" /\ dNext' = shNow + 1
    /\ UNCHANGED <<shMem, shWeight, shIndex, shWorking, shNow, shNextId,
                   rPc, rId, rMem, rBoost, dQueue, dMem>>
    /\ UNCHANGED searchVars
    /\ UNCHANGED notSh

\* BiomimeticMemoryRouter._consolidation_loop: one pass of the try block;
\* run_consolidation_cycle of the ConsolidationEngine completes or raises
ClCycle ==
    /\ clPc = "sleep"
    /\ clCycles < MaxCycles
    /\ \E raises \in BOOLEAN :
        IF raises
        THEN clPc' = "retry" /\ UNCHANGED clCycles
        ELSE clCycles' = clCycles + 1 /\ UNCHANGED clPc
    /\ UNCHANGED <<evPc, evHandled>>
    /\ UNCHANGED notBg

\* _consolidation_loop: the sleep of a minute in the handler ends
ClRetry ==
    /\ clPc = "retry"
    /\ clPc' = "sleep"
    /\ UNCHANGED <<clCycles, evPc, evHandled>>
    /\ UNCHANGED notBg

\* event_type of the messages of the consumed topics; "missing" is a
\* message without that key
EventTypes == {"memory_consolidation", "cross_synthesis", "routing_feedback",
               "missing"}

\* AgenticThalamusRouter._process_consolidation_events: one iteration of
\* "async for message in self.consumer"; the try block encloses the loop,
\* so an exception of the iteration ends the coroutine
EvReceive ==
    /\ evPc = "waiting"
    /\ evHandled < MaxEvents
    /\ \E event_type \in EventTypes, kafkaFails \in BOOLEAN :
        IF kafkaFails \/ event_type = "missing"
        THEN evPc' = "ended" /\ UNCHANGED evHandled
        ELSE evHandled' = evHandled + 1 /\ UNCHANGED evPc
    /\ UNCHANGED <<clPc, clCycles>>
    /\ UNCHANGED notBg

BackgroundNext ==
    \/ ShStore \/ DecayTick
    \/ DecayWake \/ DecayGet \/ DecaySetMemory \/ DecaySetWeight \/ DecayZAdd
    \/ DecayExcept \/ DecayRetry
    \/ ClCycle \/ ClRetry
    \/ EvReceive

\* ------------------------------------------------------------------------
\* The weight functions applied run after run
\* ------------------------------------------------------------------------
MaxRuns == 3         \* applications of the weight functions to one record

\* arguments of store_memory: initial_weight, metadata['importance'],
\* context critical or urgent, len(content)
WeStoreInputs ==
    [hint : {0, min_weight, 5000, One}, importance : {0, 5000, One},
     critical : BOOLEAN, length : {0, 50, 2000}]

\* weights of the semantic_memories row when the first run starts
WeRowWeights == {3000, 9000}

WeInit ==
    /\ weWeight = 0 /\ weHours = 0
    /\ weRow \in WeRowWeights
    /\ weRuns = <<>>

WeOff == weWeight = 0 /\ weHours = 0 /\ weRow = 0 /\ weRuns = <<>>

\* one application: the function, the weight before and after it, whether
\* the weight was written, and the hours_since_access it was given
Run(op, before, after, applied, hours) ==
    [op |-> op, before |-> before, after |-> after, applied |-> applied,
     hours |-> hours]

\* the record has been stored
Stored == \E k \in 1..Len(weRuns) : weRuns[k].op = "store"

\* SuperhumanHippocampus.store_memory of the record
WeStore ==
    /\ ~ Stored
    /\ \E in \in WeStoreInputs :
        LET computed_weight == CalculateInitialWeight(in.hint, in.importance,
                                                      in.critical, in.length)
        IN  /\ weWeight' = computed_weight
            /\ weRuns' = Append(weRuns, Run("store", in.hint, computed_weight,
                                            TRUE, 0))
    /\ weHours' = 0
    /\ UNCHANGED weRow
    /\ UNCHANGED notWe

\* one pass of _weight_decay_loop over the record; the loop has slept an
\* hour or more since its previous pass
WeDecayPass ==
    /\ Stored
    /\ Len(weRuns) <= MaxRuns
    /\ \E slept \in 1..2 :
        LET hours_since_access == weHours + slept
            new_weight == Decay(weWeight, hours_since_access)
            applied    == hours_since_access > 1 /\ new_weight # weWeight
            after      == IF applied THEN new_weight ELSE weWeight
        IN  /\ weHours' = hours_since_access
            /\ weWeight' = after
            /\ weRuns' = Append(weRuns, Run("decay", weWeight, after, applied,
                                            hours_since_access))
    /\ UNCHANGED weRow
    /\ UNCHANGED notWe

\* SuperhumanHippocampus.recall_memory of the record
WeRecall ==
    /\ Stored
    /\ Len(weRuns) <= MaxRuns
    /\ \E boost_weight \in BOOLEAN :
        LET after == IF boost_weight THEN Reinforce(weWeight) ELSE weWeight
        IN  /\ weWeight' = after
            /\ weRuns' = Append(weRuns, Run("recall", weWeight, after,
                                            boost_weight, 0))
    /\ weHours' = 0
    /\ UNCHANGED weRow
    /\ UNCHANGED notWe

\* BiomimeticMemoryManager._apply_weight_decay over the row, which is or is
\* not older than 24 hours
WeApplyWeightDecay ==
    /\ Len(weRuns) <= MaxRuns
    /\ \E stale \in BOOLEAN :
        LET after == IF stale THEN DecayedRowWeight(weRow) ELSE weRow
        IN  /\ weRow' = after
            /\ weRuns' = Append(weRuns, Run("apply_weight_decay", weRow, after,
                                            stale, 0))
    /\ UNCHANGED <<weWeight, weHours>>
    /\ UNCHANGED notWe

\* BiomimeticMemoryManager._reinforce_memory on the MemoryEntry built from
\* the row; the row itself is not written
WeReinforceMemory ==
    /\ Len(weRuns) <= MaxRuns
    /\ LET memory == [weight |-> weRow, access_count |-> 1]
       IN  weRuns' = Append(weRuns, Run("reinforce_memory", weRow,
                                        ReinforceMemory(memory).weight, TRUE, 0))
    /\ UNCHANGED <<weWeight, weHours, weRow>>
    /\ UNCHANGED notWe

WeNext ==
    WeStore \/ WeDecayPass \/ WeRecall \/ WeApplyWeightDecay \/ WeReinforceMemory

\* ------------------------------------------------------------------------
\* NeocortexProcessor (semantic_memories, semantic_relationships) and
\* CerebellumProcessor (Skill node, LEADS_TO relation)
\* ------------------------------------------------------------------------
MaxNcCalls  == 4     \* calls of the NeocortexProcessor in one behaviour
MaxPractice == 8     \* calls of reinforce_skill_practice in one behaviour

\* hippocampus_memory arguments of consolidate_from_hippocampus: id,
\* importance_score and the embedding handed over with it
NcHippocampus ==
    { [id |-> "h1", importance_score |-> 9000, embedding |-> 1],
      [id |-> "h2", importance_score |-> 9000, embedding |-> 2],
      [id |-> "h3", importance_score |-> 5000, embedding |-> 1] }

\* 1 - (embedding <=> $1) of two embeddings
SimilarityScore(e1, e2) == IF e1 = e2 THEN One ELSE 9000

NoSkill == [learned |-> FALSE, confidence |-> 0, strength |-> 0]

NcInit ==
    /\ ncMemories = <<>> /\ ncRels = <<>> /\ ncCalls = 0
    /\ cbSkill = NoSkill /\ cbCalls = 0

NcOff == NcInit

\* semantic_search(embedding, 0.85, limit=5, importance_boost=False): the
\* ids of the rows above the threshold, best first, at most five
SemanticSearch(rows, embedding) ==
    LET above == {id \in DOMAIN rows :
                     SimilarityScore(rows[id].embedding, embedding) > 8500}
        exact == {id \in above : rows[id].embedding = embedding}
        ids   == SeqOfSet(exact) \o SeqOfSet(above \ exact)
    IN  SubSeq(ids, 1, Min2(5, Len(ids)))

\* _establish_semantic_relationships: two INSERTs per similar memory.  The
\* id compared is str(row['id']) against the UUID fetchval returned, which
\* are never equal, and the table has no unique constraint beside its own
\* id, so ON CONFLICT DO NOTHING skips nothing
RECURSIVE EstablishRows(_, _, _)
EstablishRows(memory_id, similar, rows) ==
    IF similar = <<>> THEN <<>>
    ELSE LET other == Head(similar)
             score == SimilarityScore(rows[other].embedding,
                                      rows[memory_id].embedding)
         IN  << [source |-> memory_id, target |-> other, strength |-> score],
                [source |-> other, target |-> memory_id, strength |-> score] >>
             \o EstablishRows(memory_id, Tail(similar), rows)

\* consolidate_from_hippocampus
NcConsolidate ==
    /\ ncCalls < MaxNcCalls
    /\ \E hm \in NcHippocampus :
        IF hm.importance_score < 7000
        THEN UNCHANGED <<ncMemories, ncRels>>
        ELSE LET memory_id == Len(ncMemories) + 1
                 rows == Append(ncMemories,
                                [source_hippocampus_id |-> hm.id,
                                 embedding |-> hm.embedding])
             IN  /\ ncMemories' = rows
                 /\ ncRels' = ncRels \o EstablishRows(memory_id,
                                  SemanticSearch(rows, hm.embedding), rows)
    /\ ncCalls' = ncCalls + 1
    /\ UNCHANGED <<cbSkill, cbCalls>>
    /\ UNCHANGED notNc

\* reinforce_relationship: UPDATE ... SET strength = LEAST(1.0, strength + $3)
\* WHERE source_memory_id = $1 AND target_memory_id = $2
NcReinforce ==
    /\ ncCalls < MaxNcCalls
    /\ \E source_id \in DOMAIN ncMemories, target_id \in DOMAIN ncMemories :
        ncRels' = [k \in DOMAIN ncRels |->
                     IF ncRels[k].source = source_id /\ ncRels[k].target = target_id
                     THEN [ncRels[k] EXCEPT !.strength = Min2(One, @ + 1000)]
                     ELSE ncRels[k]]
    /\ ncCalls' = ncCalls + 1
    /\ UNCHANGED <<ncMemories, cbSkill, cbCalls>>
    /\ UNCHANGED notNc

\* rows of a table kept by DELETE ... WHERE strength < threshold
RECURSIVE KeepStrong(_, _)
KeepStrong(rels, threshold) ==
    IF rels = <<>> THEN <<>>
    ELSE (IF Head(rels).strength < threshold THEN <<>> ELSE <<Head(rels)>>)
         \o KeepStrong(Tail(rels), threshold)

\* cleanup_weak_memories(strength_threshold)
NcCleanup ==
    /\ ncCalls < MaxNcCalls
    /\ \E strength_threshold \in {1000, 9500} :
        ncRels' = KeepStrong(ncRels, strength_threshold)
    /\ ncCalls' = ncCalls + 1
    /\ UNCHANGED <<ncMemories, cbSkill, cbCalls>>
    /\ UNCHANGED notNc

\* initial_confidence arguments of learn_skill_sequence
CbInitialConfidence == {3000, 9000}

\* learn_skill_sequence of a skill of two steps: the Skill node and the one
\* LEADS_TO relation between its steps
CbLearn ==
    /\ ~ cbSkill.learned
    /\ \E initial_confidence \in CbInitialConfidence :
        cbSkill' = [learned |-> TRUE, confidence |-> initial_confidence,
                    strength |-> initial_confidence]
    /\ UNCHANGED <<ncMemories, ncRels, ncCalls, cbCalls>>
    /\ UNCHANGED notNc

\* CASE WHEN s.confidence < 0.95 THEN s.confidence + 0.05 ELSE 0.95 END
ConfidenceAfterSuccess(c) == IF c < 9500 THEN c + 500 ELSE 9500
\* CASE WHEN rel.strength < 0.95 THEN rel.strength + 0.1 ELSE 0.95 END
StrengthAfterSuccess(s) == IF s < 9500 THEN s + 1000 ELSE 9500
\* CASE WHEN s.confidence > 0.1 THEN s.confidence - 0.02 ELSE 0.1 END
ConfidenceAfterFailure(c) == IF c > 1000 THEN c - 200 ELSE 1000

\* reinforce_skill_practice
CbReinforce ==
    /\ cbSkill.learned
    /\ cbCalls < MaxPractice
    /\ \E execution_success \in BOOLEAN :
        cbSkill' = IF execution_success
                   THEN [cbSkill EXCEPT
                            !.confidence = ConfidenceAfterSuccess(@),
                            !.strength = StrengthAfterSuccess(@)]
                   ELSE [cbSkill EXCEPT
                            !.confidence = ConfidenceAfterFailure(@)]
    /\ cbCalls' = cbCalls + 1
    /\ UNCHANGED <<ncMemories, ncRels, ncCalls>>
    /\ UNCHANGED notNc

PutNext == HyStoreMemory \/ NcConsolidate

\* the hybrid server with entities 1 and 2 stored by earlier calls
HyStoredInit ==
    /\ hyPg = {1, 2} /\ hyQdrant = {1, 2} /\ hyRels = {}
    /\ hyCache = <<>> /\ hyResponse = NoResponse /\ hyCalls = 0
    /\ hyObs = <<>>

AssocNext ==
    \/ NcConsolidate \/ NcReinforce \/ NcCleanup
    \/ HyCreateRelationship

StrengthNext == NcConsolidate \/ NcReinforce \/ CbLearn \/ CbReinforce

\* ------------------------------------------------------------------------
\* Fan-out with a region whose call never completes
\* ------------------------------------------------------------------------
\* _process_in_brain_region: the processor of one region awaits a reply that
\* never comes; no await of the fan-out carries a timeout
FanTaskHangs(c) ==
    /\ rtPc[c] = "gather"
    /\ \E region \in DOMAIN rtTasks[c] :
          /\ rtTasks[c][region] = "pending"
          /\ rtTasks' = [rtTasks EXCEPT ![c][region] = "hung"]
    /\ UNCHANGED <<rtPc, rtPacket, rtDecision, rtResults, rtSynth, rtCache,
                   rtStats, rtEvents, rtBrain>>
    /\ UNCHANGED notRt

FanHangNext ==
    \E c \in Calls :
        \/ FanCreateTasks(c) \/ FanTaskEnds(c) \/ FanTaskHangs(c)
        \/ FanCollect(c) \/ FanSynthesis(c) \/ FanUpdate(c) \/ FanStream(c)
        \/ RtExcept(c)

\* ------------------------------------------------------------------------
\* BrainstemProcessor: ingest_raw_data with its immediate processing, and
\* the autonomic processing loop; one MongoDB command per step
\* ------------------------------------------------------------------------
MaxIngest == 2       \* calls of ingest_raw_data in one behaviour
MaxAttempts == 3     \* documents of processed one raw entry may get

\* priority arguments: the default, and one that triggers _process_immediate
BsPriorities == {5, 8}

BsInit ==
    /\ bsRaw = <<>> /\ bsProcessed = <<>> /\ bsLog = <<>>
    /\ bsIngest = [pc |-> "idle", id |-> 0]
    /\ bsLoop = [pc |-> "sleep", batch |-> <<>>]

BsOff == BsInit

\* find({'processed': False}).sort('priority', DESCENDING): the ids of the
\* unprocessed documents, highest priority first
RECURSIVE Unprocessed(_)
Unprocessed(raw) ==
    LET open == {k \in DOMAIN raw : ~ raw[k].processed}
    IN  IF open = {} THEN <<>>
        ELSE LET m == CHOOSE x \in open : \A y \in open :
                          \/ raw[x].priority > raw[y].priority
                          \/ raw[x].priority = raw[y].priority /\ x <= y
             IN  <<m>> \o Unprocessed([raw EXCEPT ![m].processed = TRUE])

\* ingest_raw_data: insert_one into raw_input; a priority of 8 or more goes
\* on to _process_immediate, any other call returns
BsIngest ==
    /\ bsIngest.pc = "idle"
    /\ Cardinality(DOMAIN bsRaw) < MaxIngest
    /\ \E priority \in BsPriorities :
        LET entry_id == Cardinality(DOMAIN bsRaw) + 1
        IN  /\ bsRaw' = ZAdd(bsRaw, entry_id,
                             [priority |-> priority, processed |-> FALSE])
            /\ bsProcessed' = ZAdd(bsProcessed, entry_id, 0)
            /\ bsLog' = ZAdd(bsLog, entry_id, 0)
            /\ bsIngest' = IF priority >= 8
                           THEN [pc |-> "insert", id |-> entry_id]
                           ELSE [pc |-> "idle", id |-> 0]
    /\ UNCHANGED bsLoop
    /\ UNCHANGED notBs

\* _process_immediate: insert_one into processed; a command that raises
\* ends the method in its except clause
BsImmediateInsert ==
    /\ bsIngest.pc = "insert"
    /\ bsProcessed[bsIngest.id] < MaxAttempts
    /\ \E mongoFails \in BOOLEAN :
        IF mongoFails
        THEN bsIngest' = [pc |-> "idle", id |-> 0] /\ UNCHANGED bsProcessed
        ELSE /\ bsProcessed' = [bsProcessed EXCEPT ![bsIngest.id] = @ + 1]
             /\ bsIngest' = [bsIngest EXCEPT !.pc = "log"]
    /\ UNCHANGED <<bsRaw, bsLog, bsLoop>>
    /\ UNCHANGED notBs

\* _process_immediate: _log_routing_decision
BsImmediateLog ==
    /\ bsIngest.pc = "log"
    /\ \E mongoFails \in BOOLEAN :
        IF mongoFails
        THEN bsIngest' = [pc |-> "idle", id |-> 0] /\ UNCHANGED bsLog
        ELSE /\ bsLog' = [bsLog EXCEPT ![bsIngest.id] = @ + 1]
             /\ bsIngest' = [bsIngest EXCEPT !.pc = "mark"]
    /\ UNCHANGED <<bsRaw, bsProcessed, bsLoop>>
    /\ UNCHANGED notBs

\* _process_immediate: update_one sets processed, then ingest_raw_data
\* returns
BsImmediateMark ==
    /\ bsIngest.pc = "mark"
    /\ \E mongoFails \in BOOLEAN :
        IF mongoFails
        THEN UNCHANGED bsRaw
        ELSE bsRaw' = [bsRaw EXCEPT ![bsIngest.id].processed = TRUE]
    /\ bsIngest' = [pc |-> "idle", id |-> 0]
    /\ UNCHANGED <<bsProcessed, bsLog, bsLoop>>
    /\ UNCHANGED notBs

\* _autonomic_processing_loop: the sleep ends and the unprocessed documents
\* are read
BsLoopFind ==
    /\ bsLoop.pc = "sleep"
    /\ Unprocessed(bsRaw) # <<>>
    /\ bsLoop' = [pc |-> "insert", batch |-> Unprocessed(bsRaw)]
    /\ UNCHANGED <<bsRaw, bsProcessed, bsLog, bsIngest>>
    /\ UNCHANGED notBs

\* the loop after the entry at the head of the batch: the next entry, or
\* the sleep when the batch is done
AfterEntry(batch) ==
    [pc |-> IF Tail(batch) = <<>> THEN "sleep" ELSE "insert",
     batch |-> Tail(batch)]

\* _process_autonomic: insert_one into processed; a command that raises
\* ends the method in its except clause and the loop takes the next entry
BsLoopInsert ==
    /\ bsLoop.pc = "insert"
    /\ bsProcessed[Head(bsLoop.batch)] < MaxAttempts
    /\ \E mongoFails \in BOOLEAN :
        IF mongoFails
        THEN bsLoop' = AfterEntry(bsLoop.batch) /\ UNCHANGED bsProcessed
        ELSE /\ bsProcessed' = [bsProcessed EXCEPT ![Head(bsLoop.batch)] = @ + 1]
             /\ bsLoop' = [bsLoop EXCEPT !.pc = "log"]
    /\ UNCHANGED <<bsRaw, bsLog, bsIngest>>
    /\ UNCHANGED notBs

\* _process_autonomic: _log_routing_decision
BsLoopLog ==
    /\ bsLoop.pc = "log"
    /\ \E mongoFails \in BOOLEAN :
        IF mongoFails
        THEN bsLoop' = AfterEntry(bsLoop.batch) /\ UNCHANGED bsLog
        ELSE /\ bsLog' = [bsLog EXCEPT ![Head(bsLoop.batch)] = @ + 1]
             /\ bsLoop' = [bsLoop EXCEPT !.pc = "mark"]
    /\ UNCHANGED <<bsRaw, bsProcessed, bsIngest>>
    /\ UNCHANGED notBs

\* _process_autonomic: update_one sets processed
BsLoopMark ==
    /\ bsLoop.pc = "mark"
    /\ \E mongoFails \in BOOLEAN :
        IF mongoFails
        THEN UNCHANGED bsRaw
        ELSE bsRaw' = [bsRaw EXCEPT ![Head(bsLoop.batch)].processed = TRUE]
    /\ bsLoop' = AfterEntry(bsLoop.batch)
    /\ UNCHANGED <<bsProcessed, bsLog, bsIngest>>
    /\ UNCHANGED notBs

BsNext ==
    \/ BsIngest \/ BsImmediateInsert \/ BsImmediateLog \/ BsImmediateMark
    \/ BsLoopFind \/ BsLoopInsert \/ BsLoopLog \/ BsLoopMark

\* ------------------------------------------------------------------------
\* BiomimeticMemoryRouter.encode_memory over the working memory of
\* HippocampusMemory
\* ------------------------------------------------------------------------
MaxEncodes == 2      \* calls of encode_memory that return in one behaviour

EnInit == enReturned = {}

EnOff == EnInit

\* everything but the working memory and the ids returned
notWmEn == <<shVars, mgVars, rtVars, hyVars, bgVars, weVars, ncVars, bsVars>>

\* encode_memory: memory_id and the id store_immediate makes are two uuid4
\* values; the content is stored under the second with a TTL of 30 s, the
\* analyses return their placeholder values, the long-term stores run under
\* gather(return_exceptions=True), and the first is returned. A Redis error
\* in store_immediate leaves through the except clause.
EnEncodeMemory ==
    /\ Cardinality(enReturned) < MaxEncodes
    /\ \E content \in WmContents, redisFails \in BOOLEAN :
        LET memory_id == wmNextId + 1
            temp_id   == wmNextId + 2
            entry     == [content |-> content, access_count |-> 1,
                          last_access |-> wmSeq + 1, expires |-> wmNow + 3]
        IN  IF redisFails
            THEN UNCHANGED <<wmStore, wmSeq, wmNextId, enReturned>>
            ELSE /\ wmNextId' = temp_id
                 /\ wmStore' = MaintainWorkingCapacity(ZAdd(wmStore, temp_id, entry))
                 /\ wmSeq' = wmSeq + 1
                 /\ enReturned' = enReturned \cup
                                  {[id |-> memory_id, content |-> content]}
    /\ UNCHANGED <<wmNow, wmOutcome, wmTiers, wmActive, wmCalls>>
    /\ UNCHANGED notWmEn

EncodeNext == EnEncodeMemory \/ WmStoreImmediate \/ WmGetImmediate \/ WmTick

\* ------------------------------------------------------------------------
\* Specifications
\* ------------------------------------------------------------------------
\* each specification starts one component and leaves the others unused
InitSH    == ShInit /\ MgOff /\ WmOff /\ RtOff /\ HyOff /\ BgOff /\ WeOff /\ NcOff /\ BsOff /\ EnOff
InitMgr   == MgInit /\ ShOff /\ WmOff /\ RtOff /\ HyOff /\ BgOff /\ WeOff /\ NcOff /\ BsOff /\ EnOff
InitWM    == WmInit /\ ShOff /\ MgOff /\ RtOff /\ HyOff /\ BgOff /\ WeOff /\ NcOff /\ BsOff /\ EnOff
InitRoute == RtInit /\ ShOff /\ MgOff /\ WmOff /\ HyOff /\ BgOff /\ WeOff /\ NcOff /\ BsOff /\ EnOff
InitFan   == FanInit /\ ShOff /\ MgOff /\ WmOff /\ HyOff /\ BgOff /\ WeOff /\ NcOff /\ BsOff /\ EnOff
InitDecide == DecideInit /\ ShOff /\ MgOff /\ WmOff /\ HyOff /\ BgOff /\ WeOff /\ NcOff /\ BsOff /\ EnOff
InitHybrid == HyInit /\ ShOff /\ MgOff /\ WmOff /\ RtOff /\ BgOff /\ WeOff /\ NcOff /\ BsOff /\ EnOff
InitMcpRecall == MgInit /\ ShOff /\ WmOff /\ RtOff /\ HyOff /\ BgOff /\ WeOff /\ NcOff /\ BsOff /\ EnOff
InitMcpCycle  == MgInit /\ ShOff /\ WmOff /\ RtOff /\ HyOff /\ BgOff /\ WeOff /\ NcOff /\ BsOff /\ EnOff
InitBackground == BgInit /\ ShInit /\ MgOff /\ WmOff /\ RtOff /\ HyOff /\ WeOff /\ NcOff /\ BsOff /\ EnOff
InitWeight == WeInit /\ ShOff /\ MgOff /\ WmOff /\ RtOff /\ HyOff /\ BgOff /\ NcOff /\ BsOff /\ EnOff
InitPut == NcInit /\ HyInit /\ ShOff /\ MgOff /\ WmOff /\ RtOff /\ BgOff /\ WeOff /\ BsOff /\ EnOff
InitAssoc == NcInit /\ HyStoredInit /\ ShOff /\ MgOff /\ WmOff /\ RtOff /\ BgOff /\ WeOff /\ BsOff /\ EnOff
InitStrength == NcInit /\ ShOff /\ MgOff /\ WmOff /\ RtOff /\ HyOff /\ BgOff /\ WeOff /\ BsOff /\ EnOff
InitBrainstem == BsInit /\ ShOff /\ MgOff /\ WmOff /\ RtOff /\ HyOff /\ BgOff /\ WeOff /\ NcOff /\ EnOff
InitEncode == WmInit /\ EnInit /\ ShOff /\ MgOff /\ RtOff /\ HyOff /\ BgOff /\ WeOff /\ NcOff /\ BsOff

SpecSH    == InitSH /\ [][ShNext]_vars
SpecMgr   == InitMgr /\ [][MgNext]_vars
SpecWM    == InitWM /\ [][WmNext]_vars
SpecRoute == InitRoute /\ [][RtNext]_vars
SpecFan   == InitFan /\ [][FanNext]_vars
SpecDecide == InitDecide /\ [][DecideNext]_vars
SpecHybrid == InitHybrid /\ [][HyNext]_vars
SpecMcpRecall == InitMcpRecall /\ [][McpRecallNext]_vars
SpecMcpCycle  == InitMcpCycle /\ [][McpCycleNext]_vars
SpecBackground == InitBackground /\ [][BackgroundNext]_vars
SpecWeight == InitWeight /\ [][WeNext]_vars
SpecPut == InitPut /\ [][PutNext]_vars
SpecAssoc == InitAssoc /\ [][AssocNext]_vars
SpecStrength == InitStrength /\ [][StrengthNext]_vars

\* the event loop runs every coroutine that is ready: a step of the fan-out
\* that stays possible is eventually taken
SpecFanFair == InitFan /\ [][FanHangNext]_vars /\ WF_vars(FanHangNext)
SpecBrainstem == InitBrainstem /\ [][BsNext]_vars
SpecHyCache == InitHybrid /\ [][HyCacheNext]_vars
SpecEncode == InitEncode /\ [][EncodeNext]_vars

\* ------------------------------------------------------------------------
\* Claims
\* ------------------------------------------------------------------------

\* C1: a Reinforce or Decay application that starts from a stored weight in
\* [min_weight, 1.0] leaves that weight in [min_weight, 1.0]; checked for
\* the entries of SuperhumanHippocampus and the rows the manager decays.
C1_WeightBounds ==
    [][ /\ \A id \in DOMAIN shMem \cap DOMAIN shMem' :
              (min_weight <= shMem[id].weight /\ shMem[id].weight <= One)
                  => (min_weight <= shMem'[id].weight /\ shMem'[id].weight <= One)
        /\ \A r \in DOMAIN mgSemantic \cap DOMAIN mgSemantic' :
              (min_weight <= mgSemantic[r].weight /\ mgSemantic[r].weight <= One)
                  => (min_weight <= mgSemantic'[r].weight
                         /\ mgSemantic'[r].weight <= One) ]_vars

\* C2: no operation and no passage of time removes a stored record: an id
\* that is retrievable stays retrievable in the next state, in each of the
\* three stores.
C2_NothingRemoved ==
    [][ /\ DOMAIN shMem \subseteq DOMAIN shMem'
        /\ DOMAIN wmStore \subseteq DOMAIN wmStore'
        /\ DOMAIN mgWorking \subseteq DOMAIN mgWorking' ]_vars

C4_OneEntryPerTargetRegion ==
    \A c \in Calls :
        rtPc[c] \in {"synthesis", "update", "stream", "returned"}
            => /\ DOMAIN rtResults[c] \ {"_meta"} = rtDecision[c].target_regions
               /\ \A region \in DOMAIN rtTasks[c] :
                     /\ rtResults[c][region].success = (rtTasks[c][region] = "ok")
                     /\ rtResults[c][region].error = (rtTasks[c][region] = "raised")

\* C5: an operation in which no tier succeeded ends with an error: a recall
\* of the manager whose searched tiers all raised does not return, and a
\* route call whose tasks all raised is neither counted as a successful
\* route nor returned.
C5_TotalFailureRaises ==
    /\ (mgTiers # <<>> /\ \A t \in DOMAIN mgTiers : mgTiers[t] = "raised")
           => mgOutcome = "raised"
    /\ \A c \in Calls :
           rtPc[c] \in {"stream", "returned"}
               => \E region \in DOMAIN rtTasks[c] : rtTasks[c][region] = "ok"

\* C6: a recall in which one tier raised and another tier has hits returns,
\* and its result is built from exactly the tiers that have hits.
C6_RecallToleratesFailedTier ==
    /\ (/\ wmTiers # <<>>
        /\ \E t \in DOMAIN wmTiers : wmTiers[t] = "raised"
        /\ \E t \in DOMAIN wmTiers : wmTiers[t] = "hits")
           => /\ wmOutcome = "returned"
              /\ wmActive = {t \in DOMAIN wmTiers : wmTiers[t] = "hits"}
    /\ (/\ mgTiers # <<>>
        /\ \E t \in DOMAIN mgTiers : mgTiers[t] = "raised"
        /\ \E k \in DOMAIN mgResult : TRUE)
           => /\ mgOutcome = "returned"
              /\ \A k \in DOMAIN mgResult : mgTiers[mgResult[k].region] = "ok"

\* C7: at most one read-modify-write of a record id is in flight: a recall
\* that has read an entry and not yet written it back never coexists with a
\* decay update of the same id between its read and its last write, and no
\* two route calls are in flight for the same packet.
C7_OneInFlightPerId ==
    /\ ~ (/\ rPc \in {"weight", "index", "memory"}
          /\ dPc \in {"memory", "weight", "index"}
          /\ rId = Head(dQueue))
    /\ \A c, d \in Calls :
           (c # d /\ rtPc[c] \notin Finished /\ rtPc[d] \notin Finished)
               => rtPacket[c] # rtPacket[d]

\* C8: the stored access_count of a record never decreases.
C8_AccessCountMonotonic ==
    [][ \A id \in DOMAIN shMem \cap DOMAIN shMem' :
            shMem'[id].access_count >= shMem[id].access_count ]_vars

\* C9: with the cache in use, _analyze_and_decide_routing returns for a
\* packet the decision the analysis computes for that packet: an analysis
\* that has computed its decision returns it, and every decision returned
\* has the target regions, strategy and transformations of the call's own
\* packet.
C9_CachedEqualsComputed ==
    [][ \A c \in Calls :
          /\ (rtPc[c] = "cache_store" /\ rtPc'[c] # "cache_store")
                 => (rtPc'[c] = "decided" /\ rtDecision'[c] = ComputeDecision(rtPacket[c]))
          /\ rtPc'[c] = "decided"
                 => LET computed == ComputeDecision(rtPacket'[c])
                    IN  /\ rtDecision'[c].target_regions = computed.target_regions
                        /\ rtDecision'[c].routing_strategy.value
                               = computed.routing_strategy.value
                        /\ rtDecision'[c].transformations = computed.transformations
      ]_vars

\* C10: two computations of the routing decision for packets of the same
\* fingerprint (vector prefix, content, declared type) and the same context,
\* none of them served from the cache, yield the same set of target regions
\* and the same strategy.
C10_RoutingDeterminism ==
    \A c, d \in Calls :
        (/\ rtPc[c] = "cache_store" /\ rtPc[d] = "cache_store"
         /\ CacheKey(rtPacket[c]) = CacheKey(rtPacket[d])
         /\ rtPacket[c].content = rtPacket[d].content
         /\ rtPacket[c].vector_type = rtPacket[d].vector_type
         /\ rtPacket[c].context = rtPacket[d].context)
            => /\ rtDecision[c].target_regions = rtDecision[d].target_regions
               /\ rtDecision[c].routing_strategy = rtDecision[d].routing_strategy

\* C11: a routing request whose analysis input is malformed (an empty
\* vector, a priority that is not a number) gets the full fan-out decision:
\* its analysis ends with a decision that targets every region, and the
\* request does not leave through the except clause.
C11_MalformedFallsBackToFanOut ==
    [][ \A c \in Calls :
          (rtPc[c] = "analyze" /\ AnalysisRaises(rtPacket[c])
                               /\ rtPc'[c] # "analyze")
              => /\ rtPc'[c] = "cache_store"
                 /\ rtDecision'[c].target_regions = AllRegions ]_vars

\* C12: an error while reading the routing cache or while storing the
\* computed decision in it never fails the request: no call leaves the
\* cache read or the cache store through the except clause.
C12_CacheErrorsAreHarmless ==
    [][ \A c \in Calls :
          rtPc[c] \in {"cache_get", "cache_store"} => rtPc'[c] # "except" ]_vars

C16_SearchHonoursMinWeight ==
    [][ (sPc = "get" /\ sPc' = "returned")
            => \A i \in 1..Len(sResults') :
                   /\ sResults'[i].weight >= sMin'
                   /\ shMem'[sResults'[i].memory_id].weight >= sMin' ]_vars

\* C17: the result list of a recall holds each record id at most once, also
\* when the record is reached through several relationships.
C17_ResultIdsUnique ==
    \A i, j \in DOMAIN hyResponse.results :
        hyResponse.results[i].entity_id = hyResponse.results[j].entity_id
            => i = j

\* C19: a recall that returns a record leaves that access in the store: the
\* stored access count of every working-memory record returned has grown,
\* and the stored weight of every record returned is the reinforced weight
\* the caller was handed.
C19_RecallReinforcesStore ==
    [][ (mgCalls' = mgCalls + 1 /\ mgOutcome' = "returned" /\ mgResult' # <<>>)
            => \A i \in DOMAIN mgResult' :
                   LET e == mgResult'[i]
                   IN  /\ e.region = "hippocampus"
                          => /\ mgWorking'[e.id].access_count
                                    > mgWorking[e.id].access_count
                             /\ mgWorking'[e.id].weight = e.weight
                       /\ e.region = "neocortex"
                          => mgSemantic'[e.id].weight = e.weight ]_vars

\* the match score of a recalled entry: a working-memory hit contains the
\* query; a semantic row is as similar as it is near the query vector
MatchScore(e) == IF e.region = "neocortex" THEN One - Distance(e.id) ELSE One

\* similarity_or_match_score * 0.7 + currentWeight * 0.3, times 10
RankScore(e) == MatchScore(e) * 7 + e.weight * 3

\* the hard cap of max_results
MaxResultsCap == 50

C20_NotDueIsNoOp ==
    [][ ( /\ mgCalls' = mgCalls + 1
          /\ mgRequest'.tool = "consolidate_memories"
          /\ ~mgRequest'.force
          /\ \/ mgRequest'.cycle_type = "sws" /\ mgNow - mgLastSws < SwsInterval
             \/ mgRequest'.cycle_type = "rem" /\ mgNow - mgLastRem < RemInterval )
            => /\ mgSemantic' = mgSemantic
               /\ mgWorking' = mgWorking
               /\ mgLastSws' = mgLastSws
               /\ mgLastRem' = mgLastRem
               /\ mgOutcome' = "not_due" ]_vars

\* an sws request without force was answered "not due" some time after the
\* last sws run, while a row that the cycle would decay is waiting
C20_Witness ==
    /\ mgRequest.tool = "consolidate_memories"
    /\ mgRequest.cycle_type = "sws"
    /\ ~mgRequest.force
    /\ mgOutcome = "not_due"
    /\ mgNow > mgLastSws
    /\ \E r \in DOMAIN mgSemantic : mgSemantic[r].stale /\ mgSemantic[r].weight > 0

\* C21: a failure of a consolidation cycle, of a decay cycle or of the
\* handling of one consolidation event leaves its background task alive, so
\* that a later cycle or event can still be processed: none of the three
\* tasks (_consolidation_loop, _weight_decay_loop,
\* _process_consolidation_events) ever ends.
C21_TasksSurviveFailures ==
    /\ clPc \in {"sleep", "retry"}
    /\ dPc \in {"sleep", "get", "memory", "weight", "index", "retry"}
    /\ evPc = "waiting"

\* C22: a decay cycle interrupted at any step leaves every record either
\* fully updated or untouched: once the cycle is over (the loop sleeps, after
\* a completed cycle or after an exception) the weight in the stored memory
\* entry, the weight key and the score in the weight index of every record
\* are equal.
C22_InterruptedCycleKeepsRecordsWhole ==
    dPc \in {"sleep", "retry"} =>
        \A id \in DOMAIN shMem :
            /\ shMem[id].weight = shWeight[id]
            /\ shWeight[id] = shIndex[id]

\* C23: when the same decay cycle runs twice back-to-back with no access in
\* between and both runs decay the record, the second run lowers the weight
\* by no more than the first did, and neither run raises it; checked for the
\* passes of _weight_decay_loop and for _apply_weight_decay.
C23_SecondRunDecaysNoMore ==
    \A k \in 1..(Len(weRuns) - 1) :
        LET first  == weRuns[k]
            second == weRuns[k + 1]
        IN  (/\ first.op \in {"decay", "apply_weight_decay"}
             /\ second.op = first.op
             /\ first.applied /\ second.applied)
                => /\ first.after <= first.before
                   /\ second.after <= second.before
                   /\ second.before - second.after <= first.before - first.after

\* C24: a decay pass over a record that was not accessed for more than an
\* hour and whose weight is above min_weight writes a strictly smaller
\* weight that is not below min_weight; a reinforcement (the boost of
\* recall_memory, _reinforce_memory of the manager) of a weight below 1.0
\* gives a strictly greater weight that is not above 1.0.
C24_DecayLowersReinforceRaises ==
    \A k \in 1..Len(weRuns) :
        LET r == weRuns[k]
        IN  /\ (r.op = "decay" /\ r.hours > 1 /\ r.before > min_weight)
                   => (r.applied /\ r.after < r.before /\ r.after >= min_weight)
            /\ (r.op = "recall" /\ r.applied /\ r.before < One)
                   => (r.after > r.before /\ r.after <= One)
            /\ (r.op = "reinforce_memory" /\ r.before < One)
                   => (r.after > r.before /\ r.after <= One)

\* C25: the weight store_memory assigns to a new record
\* (_calculate_initial_weight) lies in [min_weight, 1.0] whatever the hint,
\* the importance, the context flags and the content length are.
C25_InitialWeightInRange ==
    \A k \in 1..Len(weRuns) :
        weRuns[k].op = "store"
            => (min_weight <= weRuns[k].after /\ weRuns[k].after <= One)

\* C26: a Put repeated with the same record and payload leaves the tier as
\* one Put does: semantic_memories holds at most one row per consolidated
\* hippocampus memory, observations at most one row per entity and
\* observation text, and semantic_relationships at most one row per ordered
\* pair of distinct memories.
C26_PutIsIdempotent ==
    /\ \A i, j \in DOMAIN ncMemories :
           ncMemories[i].source_hippocampus_id = ncMemories[j].source_hippocampus_id
               => i = j
    /\ \A i, j \in DOMAIN hyObs : hyObs[i] = hyObs[j] => i = j
    /\ \A i, j \in DOMAIN ncRels :
           (/\ ncRels[i].source # ncRels[i].target
            /\ ncRels[i].source = ncRels[j].source
            /\ ncRels[i].target = ncRels[j].target) => i = j

\* C27: whenever an association from A to B exists with strength s, the
\* association from B to A exists with the same strength s, in
\* semantic_relationships of the neocortex and in relationships of the
\* hybrid server (whose rows all carry the default strength).
C27_AssociationsSymmetric ==
    /\ \A i \in DOMAIN ncRels :
           \E j \in DOMAIN ncRels :
               /\ ncRels[j].source = ncRels[i].target
               /\ ncRels[j].target = ncRels[i].source
               /\ ncRels[j].strength = ncRels[i].strength
    /\ \A r \in hyRels :
           \E q \in hyRels : q.from = r.to /\ q.to = r.from /\ q.type = r.type

\* C28: every association strength stays within [0, 1] under reinforcement:
\* the strength of a semantic_relationships row is at most 1.0, and
\* reinforce_skill_practice keeps the LEADS_TO strength and the skill
\* confidence at or below 0.95 and the skill confidence at or above 0.1.
C28_StrengthsStayBounded ==
    /\ \A i \in DOMAIN ncRels :
           0 <= ncRels[i].strength /\ ncRels[i].strength <= One
    /\ cbSkill.learned
           => /\ 0 <= cbSkill.strength /\ cbSkill.strength <= 9500
              /\ 1000 <= cbSkill.confidence /\ cbSkill.confidence <= 9500

\* C29: every fan-out eventually returns: a call of
\* _execute_parallel_processing that waits for its regions eventually leaves
\* the wait, also when the call of one region never completes.
C29_FanOutReturns ==
    \A c \in Calls : (rtPc[c] = "gather") ~> (rtPc[c] # "gather")

\* C30: a Store with empty content is rejected and writes nothing: no
\* working_memory entry written by store_memory has empty content.
C30_EmptyContentRejected ==
    \A id \in DOMAIN mgWorking : mgWorking[id].content # ""

\* C31: an id, once assigned, is never reused for different content: no
\* step changes the content held under an id of working memory, so a later
\* store_memory never overwrites the record of an earlier one.
C31_IdsNeverReused ==
    [][\A id \in DOMAIN mgWorking :
           id \in DOMAIN mgWorking'
               => mgWorking'[id].content = mgWorking[id].content]_vars

\* C32: the weight a decay pass persists equals Decay applied once to the
\* weight at the last access (the store or the last recall) and the hours
\* gone by since then, however many decay passes ran in between; two units
\* of the fixed-point scale are allowed for rounding.
C32_DecayDependsOnElapsedTimeOnly ==
    \A k \in 1..Len(weRuns) :
        (weRuns[k].op = "decay" /\ weRuns[k].applied)
            => \A j \in 1..(k - 1) :
                 (/\ weRuns[j].op \in {"store", "recall"}
                  /\ \A i \in (j + 1)..(k - 1) :
                         weRuns[i].op \notin {"store", "recall"})
                    => LET once == Decay(weRuns[j].after, weRuns[k].hours)
                       IN  /\ weRuns[k].after - once <= 2
                           /\ once - weRuns[k].after <= 2

\* C33: superhuman:working_memory holds at most max_working_items ids, and
\* every id in it belongs to a record whose current weight is at least
\* CONSCIOUS_THRESHOLD, whenever no recall and no decay write is under way.
C33_WorkingSetIsConscious ==
    (rPc = "idle" /\ dPc \in {"sleep", "get"})
        => /\ Cardinality(DOMAIN shWorking) <= max_working_items
           /\ \A id \in DOMAIN shWorking :
                  /\ id \in DOMAIN shMem
                  /\ shMem[id].weight >= CONSCIOUS_THRESHOLD

\* C34: when store_immediate returns an id, the item of that id is present
\* in working memory: the capacity maintenance run by that store does not
\* delete the item just stored.
C34_StoredItemIsPresent ==
    [][wmNextId' = wmNextId + 1 => wmNextId' \in DOMAIN wmStore']_vars

\* C35: the decay pass never writes back a stale copy of a record: when it
\* writes the memory entry, the access_count and last_access of its copy are
\* those stored at that moment, so the bump of a recall_memory that ran
\* meanwhile is not overwritten.
C35_DecayWritesNoStaleCopy ==
    [][(dPc = "memory" /\ dPc' = "weight")
          => /\ dMem.access_count = shMem[Head(dQueue)].access_count
             /\ dMem.last_access = shMem[Head(dQueue)].last_access]_vars

\* C36: whenever no operation on a record is in progress (no recall, no
\* search and no decay cycle under way), the weight in the memory entry, the
\* value of the weight key and the score in superhuman:weight_index are
\* equal for every record.
C36_WeightCopiesAgreeAtRest ==
    (rPc = "idle" /\ sPc = "idle" /\ dPc = "sleep")
        => \A id \in DOMAIN shMem :
               /\ id \in DOMAIN shWeight /\ id \in DOMAIN shIndex
               /\ shMem[id].weight = shWeight[id]
               /\ shWeight[id] = shIndex[id]

\* C37: every raw entry yields exactly one processed entry and exactly one
\* routing-log entry: no brainstem_id has more than one document in
\* processed or in the routing log, and an entry marked processed has one
\* of each.
C37_OneProcessedEntryPerRawEntry ==
    \A id \in DOMAIN bsRaw :
        /\ bsProcessed[id] <= 1
        /\ bsLog[id] <= 1
        /\ bsRaw[id].processed => (bsProcessed[id] = 1 /\ bsLog[id] = 1)

C39_WriteInvalidatesRecallCache ==
    [][\A id \in HyIds :
          (/\ Len(hyObs') > Len(hyObs)
           /\ hyObs'[Len(hyObs')].entity_id = id
           /\ hyCache # <<>>
           /\ \E i \in DOMAIN hyCache[1].results :
                  hyCache[1].results[i].entity_id = id)
              => hyCache' = <<>>]_vars

\* C40: the id encode_memory returns identifies the record the call wrote
\* to working memory: when the call returns, get_immediate of that id finds
\* an item holding the content given.
C40_ReturnedIdFindsRecord ==
    [][\A r \in enReturned' \ enReturned :
           /\ r.id \in DOMAIN wmStore'
           /\ wmStore'[r.id].content = r.content]_vars

====
